---- MODULE Spec2Model ----
(***************************************************************************)
(* Model of the runtime performance-management core of the city            *)
(* visualization: ObjectPool<T> (src/unnamed/part_005) and the particle    *)
(* manager ParticleSystem (src/src/components/ParticleSystem.ts), which    *)
(* recycles its particles through an ObjectPool, the level-of-detail       *)
(* manager LODManager (src/unnamed/part_004), the frame scheduler          *)
(* AnimationLoop (src/src/systems/AnimationLoop.ts) and the camera         *)
(* controller Camera (src/unnamed/part_002).                               *)
(*                                                                         *)
(* Pooled objects are identified by the order of their construction:       *)
(* createFn() returns a fresh object each time, object k is the k-th one   *)
(* ever constructed.  validateFn, resetFn and Date.now() are supplied by   *)
(* the application and the host: their outcomes are inputs of the actions. *)
(***************************************************************************)
EXTENDS Integers, Sequences, FiniteSets, TLC

\* ------------------------------------------------------------------ bounds
\* Objects ever constructed by createFn in one behaviour.
MaxObjects == 4
\* Cap on stats.reused (the counter grows with every pop of the available list).
MaxReused == 2
\* Date.now() reads a multiple of the shrink check interval, up to this many.
MaxClockTicks == 1
\* Longest argument list of batchRelease / largest count of batchAcquire, warmUp.
MaxBatch == 2
\* Longest life of a particle at its spawn, in tenths of a second.
MaxLife == 2
\* performance.now() reads a multiple of the default update interval of the LOD
\* manager, up to this many.
MaxFrames == 2
\* Frames of normal length the clock of the animation loop runs through.
MaxShortFrames == 2
\* Frame requests and timers of the animation loop the host holds at once.
MaxPending == 2
\* Half turns the target angle of the camera is turned at most.
MaxHalfTurns == 1

\* ------------------------------------------------------ program constants
\* private shrinkCheckInterval: number = 5000
shrinkCheckInterval == 5000

NoObject == 0
ClockValues == {k * shrinkCheckInterval : k \in 0..MaxClockTicks}

\* ------------------------------------------------------------------- state
VARIABLES
    available,        \* private available: T[]        (LIFO, last element on top)
    active,           \* private active: Set<T>        (in insertion order)
    stats,            \* private stats: PoolStats
    lastShrinkCheck,  \* private lastShrinkCheck: number
    config,           \* private config: Required<PoolConfig<T>>
    constructed,      \* history: objects createFn has returned
    disposedObjs,     \* history: objects disposeFn has been called on
    pc,               \* "idle", or "acquire" inside acquire()'s recursive retry
    last              \* how the last call made on the pool ended

\* The particle manager (class ParticleSystem); its particlePool is the pool above.
VARIABLES
    activeParticles,  \* private activeParticles: Set<DataParticle> (insertion order)
    particleData,     \* DataParticle.data of the active particles: life, maxLife, velocityY
    spawnTimer,       \* private spawnTimer: number, in tenths of a second
    particleConfig,   \* private config: ParticleConfig
    enabled,          \* private enabled: boolean
    spawned           \* how the last call made on the particle manager ended

\* The level-of-detail manager (class LODManager) and the scene it looks at.
VARIABLES
    lodObjects,       \* private lodObjects: Map<string, LODObject>
    visibleObjects,   \* private visibleObjects: Set<string>
    lodConfig,        \* private config: LODConfig
    lastUpdateTime,   \* private lastUpdateTime: number, in thirds of a millisecond
    updateInterval,   \* private updateInterval: number, in thirds of a millisecond
    scene,            \* where each tracked object is, as seen from the camera
    lodLast           \* how the last call made on the LOD manager ended

\* The frame scheduler (class AnimationLoop) and the host it schedules with.
\* Times are in milliseconds, also those the source keeps in seconds.
VARIABLES
    isRunning,        \* private isRunning: boolean
    isPaused,         \* private isPaused: boolean
    animationId,      \* private animationId: "null", or the handle of a frame
                      \* request that is "pending" or "stale" (run or cancelled)
    lastTime,         \* private lastTime: number
    elapsedTime,      \* private elapsedTime: number
    tickDelta,        \* private deltaTime: number
    accumulator,      \* private accumulator: number
    frameTimeHistory, \* private frameTimeHistory: number[] (fpsHistory is 1000 / it)
    loopConfig,       \* private config: AnimationLoopConfig
    callbacks,        \* the kinds of hooks with a registered callback
    pendingFrames,    \* host: frame requests pending under other handles
    pendingTimers,    \* host: timers of scheduleAdaptiveFrame pending
    clock,            \* host: what performance.now() reads
    hasError,         \* StateManager: state.hasError
    hookLog,          \* the hooks called by the last tick, with their arguments
    loopLast          \* how the last call made on the loop ended

\* The camera controller (class Camera).  Distances are in hundredths of a
\* unit, angles in thousandths of a radian, the field of view in degrees.
VARIABLES
    cameraState,      \* private state: CameraState
    targetState,      \* private targetState: CameraState
    cameraConfig,     \* private config: CameraConfig
    isTransitioning   \* private isTransitioning: boolean

poolVars == <<available, active, stats, lastShrinkCheck, config, constructed,
              disposedObjs, pc, last>>

particleVars == <<activeParticles, particleData, spawnTimer, particleConfig,
                  enabled, spawned>>

lodVars == <<lodObjects, visibleObjects, lodConfig, lastUpdateTime,
             updateInterval, scene, lodLast>>

loopVars == <<isRunning, isPaused, animationId, lastTime, elapsedTime, tickDelta,
              accumulator, frameTimeHistory, loopConfig, callbacks, pendingFrames,
              pendingTimers, clock, hasError, hookLog, loopLast>>

cameraVars == <<cameraState, targetState, cameraConfig, isTransitioning>>

vars == <<poolVars, particleVars, lodVars, loopVars, cameraVars>>

\* -------------------------------------------------------------- sequences
SeqToSet(s) == {s[i] : i \in 1..Len(s)}

IsInjective(s) == \A i, j \in 1..Len(s) : s[i] = s[j] => i = j

Min(a, b) == IF a <= b THEN a ELSE b

\* Set.prototype.delete on an insertion-ordered set.
SetDelete(s, x) == SelectSeq(s, LAMBDA y : y # x)

\* Set.prototype.add on an insertion-ordered set.
SetAdd(s, x) == IF x \in SeqToSet(s) THEN s ELSE Append(s, x)

\* Array.prototype.pop: the array without its last element.
Pop(s) == SubSeq(s, 1, Len(s) - 1)

Top(s) == s[Len(s)]

\* ------------------------------------------------------- the pool as a value
\* The fields of one ObjectPool, bundled so that the methods compose. calls
\* lists, in order, the calls of resetFn and disposeFn a method has made since
\* it was entered: <<"reset", obj>> and <<"dispose", obj>>.
Pool == [available |-> available, active |-> active, stats |-> stats,
         lastShrinkCheck |-> lastShrinkCheck, constructed |-> constructed,
         disposedObjs |-> disposedObjs, calls |-> <<>>]

Install(p) ==
    /\ available' = p.available
    /\ active' = p.active
    /\ stats' = p.stats
    /\ lastShrinkCheck' = p.lastShrinkCheck
    /\ constructed' = p.constructed
    /\ disposedObjs' = p.disposedObjs

getTotalSize(p) == Len(p.available) + Len(p.active)

\* createFn(): the next fresh object.
createFn(p) == Cardinality(p.constructed) + 1

\* this.config.disposeFn(obj); this.stats.disposed++; this.stats.total--;
DisposeCounted(p, obj) ==
    [p EXCEPT !.disposedObjs = @ \cup {obj},
              !.calls = Append(@, <<"dispose", obj>>),
              !.stats.disposed = @ + 1,
              !.stats.total = @ - 1]

\* -------------------------------------------------------------- createObject
\* The guard of createObject: it throws when the pool is at maxSize.
createObjectAllowed(p) == getTotalSize(p) < config.maxSize

createObject(p) ==
    IF ~createObjectAllowed(p) THEN [pool |-> p, result |-> "throw"]
    ELSE LET obj == createFn(p) IN
         [pool |-> [p EXCEPT !.constructed = @ \cup {obj},
                             !.available = Append(@, obj),
                             !.stats.created = @ + 1,
                             !.stats.total = @ + 1,
                             !.stats.available = @ + 1],
          result |-> "ok"]

\* ------------------------------------------------------------------ acquire
\* Mutant of canGrow: the autoGrow flag is not consulted.
canGrow_IgnoresAutoGrow(p) == getTotalSize(p) < config.maxSize

\* Mutant of canGrow: <= for <.
canGrow_OffByOne(p) == config.autoGrow /\ getTotalSize(p) <= config.maxSize

\* Mutant of canGrow: maxSize is not consulted.
canGrow_Unbounded(p) == config.autoGrow

\* acquire(), line 101: the pool may construct one more object.
canGrow(p) == config.autoGrow /\ getTotalSize(p) < config.maxSize

\* acquire(), lines 119-126: the object passed validation and becomes active.
activate(p, obj) ==
    [p EXCEPT !.active = SetAdd(@, obj),
              !.stats.active = @ + 1,
              !.stats.available = @ - 1,
              !.stats.peak = IF p.stats.active + 1 > @ THEN p.stats.active + 1 ELSE @]

\* Mutant of rejectObject: stats.disposed++ is forgotten.
rejectObject_Uncounted(p, obj) ==
    [p EXCEPT !.disposedObjs = @ \cup {obj}, !.stats.total = @ - 1]

\* acquire(), lines 110-117 up to the recursive call: validation failed.
rejectObject(p, obj) == DisposeCounted(p, obj)

\* acquire(), lines 109-128, for the object obj just taken; valid is the value of
\* validateFn(obj).
validateObject(p, obj, valid) ==
    IF valid
    THEN [pool |-> activate(p, obj), result |-> "ok", obj |-> obj]
    ELSE [pool |-> rejectObject(p, obj), result |-> "retry", obj |-> obj]

\* One activation of acquire(): everything but the recursive call of line 116.
\* result is "ok" (returns obj), "throw" (pool exhausted) or "retry" (line 116
\* calls acquire() again).
acquireOnce(p, valid) ==
    IF Len(p.available) > 0
    THEN validateObject([p EXCEPT !.available = Pop(@), !.stats.reused = @ + 1],
                        Top(p.available), valid)
    ELSE IF canGrow(p)
    THEN validateObject([p EXCEPT !.constructed = @ \cup {createFn(p)},
                                  !.stats.created = @ + 1,
                                  !.stats.total = @ + 1],
                        createFn(p), valid)
    ELSE [pool |-> p, result |-> "throw", obj |-> NoObject]

\* The object the next activation of acquire() would take (NoObject when it throws).
nextObject(p) ==
    IF Len(p.available) > 0 THEN Top(p.available)
    ELSE IF canGrow(p) THEN createFn(p) ELSE NoObject

\* acquire() run to its end, for a validator that rejects exactly the objects of
\* the finite set rejects: the recursion of line 116 unfolded.
RECURSIVE acquire(_, _)
acquire(p, rejects) ==
    LET r == acquireOnce(p, nextObject(p) \notin rejects)
    IN  IF r.result = "retry" THEN acquire(r.pool, rejects) ELSE r

\* --------------------------------------------------------------- checkShrink
\* available.pop() followed by disposeFn and the three counters, as in
\* checkShrink, clear and resize.
popAndDispose(p) ==
    LET q == DisposeCounted(p, Top(p.available))
    IN  [q EXCEPT !.available = Pop(@), !.stats.available = @ - 1]

\* checkShrink(), line 199 and 201: utilizationRatio < shrinkThreshold (the
\* threshold in percent; 0/0 is NaN, which compares false) and more than
\* initialSize objects available.
shrinkWanted(p) ==
    /\ p.stats.total # 0
    /\ p.stats.active * 100 < config.shrinkThresholdPct * p.stats.total
    /\ Len(p.available) > config.initialSize

\* Mutant of objectsToRemove: the whole available list for the excess.
objectsToRemove_All(p) == Len(p.available)

\* checkShrink(), lines 202-203.
objectsToRemove(p) ==
    Min(Len(p.available) - config.initialSize, Len(p.available) \div 4)

\* checkShrink(), lines 205-213: the loop body.
RECURSIVE shrinkBy(_, _)
shrinkBy(p, n) ==
    IF n <= 0 \/ Len(p.available) = 0 THEN p
    ELSE shrinkBy(popAndDispose(p), n - 1)

\* checkShrink(), now being the value of Date.now().
checkShrink(p, now) ==
    IF now - p.lastShrinkCheck < shrinkCheckInterval THEN p
    ELSE LET q == [p EXCEPT !.lastShrinkCheck = now]
         IN  IF shrinkWanted(q) THEN shrinkBy(q, objectsToRemove(q)) ELSE q

\* ------------------------------------------------------------------ release
\* Mutant of isActive: the guard of release is missing.
isActive_Always(p, obj) == TRUE

\* release(), line 132: the guard.
isActive(p, obj) == obj \in SeqToSet(p.active)

\* Mutant of resetFailed: the object is recycled all the same.
resetFailed_Recycles(p, obj) ==
    [p EXCEPT !.available = Append(@, obj), !.stats.available = @ + 1]

\* release(), lines 143-148: resetFn threw.
resetFailed(p, obj) == DisposeCounted(p, obj)

\* release(), lines 151-157: resetFn returned.
recycle(p, obj, now) ==
    LET q == [p EXCEPT !.available = Append(@, obj), !.stats.available = @ + 1]
    IN  IF config.autoShrink THEN checkShrink(q, now) ELSE q

\* Mutant of release: this.active.delete(obj) is forgotten.
release_KeepsActive(p, obj, faults, now) ==
    IF obj \notin SeqToSet(p.active) THEN p
    ELSE LET q == [p EXCEPT !.stats.active = @ - 1]
         IN  IF obj \in faults THEN DisposeCounted(q, obj)
             ELSE [q EXCEPT !.available = Append(@, obj), !.stats.available = @ + 1]

\* release(obj); faults is the set of objects on which resetFn throws, now the
\* value of Date.now().
release(p, obj, faults, now) ==
    IF ~isActive(p, obj) THEN p
    ELSE LET q == [p EXCEPT !.active = SetDelete(@, obj), !.stats.active = @ - 1,
                            !.calls = Append(@, <<"reset", obj>>)]
         IN  IF obj \in faults THEN resetFailed(q, obj) ELSE recycle(q, obj, now)

\* How release(obj) ends.
releaseResult(p, obj, faults) ==
    IF ~isActive(p, obj) THEN "ignored"
    ELSE IF obj \in faults THEN "resetFault" ELSE "ok"

\* objects.forEach(obj => this.release(obj)), from index i on.
RECURSIVE releaseEach(_, _, _, _, _)
releaseEach(p, objects, i, faults, now) ==
    IF i > Len(objects) THEN p
    ELSE releaseEach(release(p, objects[i], faults, now), objects, i + 1, faults, now)

\* releaseAll(): Array.from(this.active) is taken before the first release.
releaseAll(p, faults, now) == releaseEach(p, p.active, 1, faults, now)

\* batchRelease(objects).
batchRelease(p, objects, faults, now) == releaseEach(p, objects, 1, faults, now)

\* -------------------------------------------------------------- batchAcquire
\* Mutant of batchAcquireFailed: the error propagates with nothing released.
batchAcquireFailed_KeepsObjects(p, objects, faults, now) == p

\* batchAcquire(), lines 174-178: an acquire() of the batch threw; objects are
\* the ones the batch had acquired.
batchAcquireFailed(p, objects, faults, now) == releaseEach(p, objects, 1, faults, now)

\* batchAcquire(count), the loop from iteration i on.
RECURSIVE batchAcquireFrom(_, _, _, _, _, _, _)
batchAcquireFrom(p, objects, i, count, rejects, faults, now) ==
    IF i >= count THEN [pool |-> p, result |-> "ok", objects |-> objects]
    ELSE LET r == acquire(p, rejects)
         IN  IF r.result = "throw"
             THEN [pool |-> batchAcquireFailed(r.pool, objects, faults, now),
                   result |-> "throw", objects |-> objects]
             ELSE batchAcquireFrom(r.pool, Append(objects, r.obj), i + 1, count,
                                   rejects, faults, now)

batchAcquire(p, count, rejects, faults, now) ==
    batchAcquireFrom(p, <<>>, 0, count, rejects, faults, now)

\* -------------------------------------------------------------------- clear
\* clear(), lines 222-228.
RECURSIVE disposeAvailable(_)
disposeAvailable(p) ==
    IF Len(p.available) = 0 THEN p ELSE disposeAvailable(popAndDispose(p))

\* Mutant of clear: the active objects are dropped without being released.
clear_SkipsRelease(p, faults, now) ==
    [disposeAvailable(p) EXCEPT !.active = <<>>]

\* clear().
clear(p, faults, now) ==
    [disposeAvailable(releaseAll(p, faults, now)) EXCEPT !.active = <<>>]

\* The releases of clear() have made checkShrink dispose an object.
shrunkWhileReleasing(p, faults, now) ==
    LET calls == releaseAll(p, faults, now).calls
    IN  \E i \in 1..Len(calls) : calls[i][1] = "dispose" /\ calls[i][2] \notin faults

\* ------------------------------------------------------------------- resize
\* resize(), lines 247-249: createObject() objectsToAdd times (it throws when
\* the pool is full).
RECURSIVE growBy(_, _)
growBy(p, n) ==
    IF n <= 0 THEN [pool |-> p, result |-> "ok"]
    ELSE LET r == createObject(p)
         IN  IF r.result = "throw" THEN r ELSE growBy(r.pool, n - 1)

\* Mutant of removeAvailable: once the available list is empty the active
\* objects are disposed too.
removeAvailable_TakesActive(p, n) ==
    LET k == Min(n, Len(p.available))
        m == Min(n - k, Len(p.active))
        gone == {p.available[i] : i \in (Len(p.available) - k + 1)..Len(p.available)}
                    \cup {p.active[i] : i \in (Len(p.active) - m + 1)..Len(p.active)}
    IN  IF n <= 0 THEN p
        ELSE [p EXCEPT !.available = SubSeq(@, 1, Len(@) - k),
                       !.active = SubSeq(@, 1, Len(@) - m),
                       !.disposedObjs = @ \cup gone,
                       !.stats.disposed = @ + k + m,
                       !.stats.total = @ - (k + m),
                       !.stats.available = @ - k,
                       !.stats.active = @ - m]

\* resize(), lines 256-263: removed counts down the objects still to remove.
RECURSIVE removeAvailable(_, _)
removeAvailable(p, n) ==
    IF n <= 0 \/ Len(p.available) = 0 THEN p
    ELSE removeAvailable(popAndDispose(p), n - 1)

\* resize(newSize).
resize(p, newSize) ==
    IF newSize < 0 \/ newSize > config.maxSize THEN [pool |-> p, result |-> "throw"]
    ELSE IF newSize > getTotalSize(p) THEN growBy(p, newSize - getTotalSize(p))
    ELSE IF newSize < getTotalSize(p)
    THEN [pool |-> removeAvailable(p, getTotalSize(p) - newSize), result |-> "ok"]
    ELSE [pool |-> p, result |-> "ok"]

\* ------------------------------------------------------------------- warmUp
\* warmUp(count).
warmUp(p, count, rejects, faults, now) ==
    LET b == batchAcquire(p, Min(count, config.maxSize - getTotalSize(p)),
                          rejects, faults, now)
    IN  IF b.result = "throw" THEN b
        ELSE [pool |-> batchRelease(b.pool, b.objects, faults, now), result |-> "ok",
              objects |-> b.objects]

\* ----------------------------------------------------------------- validate
\* validate(), lines 281-293: the filter over the available list, from index i.
RECURSIVE validateFrom(_, _, _, _)
validateFrom(p, old, i, rejects) ==
    IF i > Len(old) THEN p
    ELSE IF old[i] \notin rejects
    THEN validateFrom([p EXCEPT !.available = Append(@, old[i])], old, i + 1, rejects)
    ELSE validateFrom([DisposeCounted(p, old[i]) EXCEPT !.stats.available = @ - 1],
                      old, i + 1, rejects)

\* validate().
validate(p, rejects) ==
    validateFrom([p EXCEPT !.available = <<>>], p.available, 1, rejects)

\* ========================================================== ParticleSystem
\* Times are in tenths of a second: deltaTime, life, maxLife and spawnTimer.
\* Velocities are in thousandths of a unit per second.
\* The fields of one ParticleSystem, bundled so that the methods compose.
Manager == [pool |-> Pool, activeParticles |-> activeParticles,
            data |-> particleData, spawnTimer |-> spawnTimer,
            config |-> particleConfig, enabled |-> enabled]

InstallManager(m) ==
    /\ Install(m.pool)
    /\ activeParticles' = m.activeParticles
    /\ particleData' = m.data
    /\ spawnTimer' = m.spawnTimer
    /\ particleConfig' = m.config
    /\ enabled' = m.enabled

\* A function without the argument x.
Without(f, x) == [y \in DOMAIN f \ {x} |-> f[y]]

\* A function with the value v at x.
With(f, x, v) == [y \in DOMAIN f \cup {x} |-> IF y = x THEN v ELSE f[y]]

\* Mutant of atCapacity: the cap is not checked.
atCapacity_Never(m) == FALSE

\* Mutant of atCapacity: > for >=.
atCapacity_OffByOne(m) == Len(m.activeParticles) > m.config.maxParticles

\* spawnParticle(), line 240: the cap is reached.
atCapacity(m) == Len(m.activeParticles) >= m.config.maxParticles

\* spawnParticle(from, to, type, color); travelTime is distance / speed, the
\* life of the particle, and velocityY is direction.y / travelTime. result is "particle" (the particle is returned),
\* "null", or "throw" when particlePool.acquire() throws.
spawnParticle(m, travelTime, velocityY) ==
    IF atCapacity(m) THEN [manager |-> m, result |-> "null", obj |-> NoObject]
    ELSE LET r == acquire(m.pool, {}) IN
         IF r.result = "throw"
         THEN [manager |-> [m EXCEPT !.pool = r.pool], result |-> "throw",
               obj |-> NoObject]
         ELSE [manager |->
                  [m EXCEPT !.pool = r.pool,
                            !.data = With(@, r.obj, [life |-> travelTime,
                                                     maxLife |-> travelTime,
                                                     velocityY |-> velocityY]),
                            !.activeParticles = SetAdd(@, r.obj)],
               result |-> "particle", obj |-> r.obj]

\* The velocity below which gravity is not applied (line 122).
TerminalVelocity == -10000

\* 9.8 * deltaTime * 0.1 (line 123), deltaTime in tenths of a second.
gravityStep(deltaTime) == 98 * deltaTime

\* DataParticle.update(deltaTime), lines 97-127: the life after the call (the
\* call returns false when it is <= 0, and leaves the velocity alone then) and
\* the vertical velocity under gravity.  The position, the opacity and the
\* trail are not part of the model.
particleUpdate(d, deltaTime) ==
    LET aged == [d EXCEPT !.life = @ - deltaTime] IN
      IF aged.life <= 0 THEN aged
      ELSE IF aged.velocityY > TerminalVelocity
      THEN [aged EXCEPT !.velocityY = @ - gravityStep(deltaTime)]
      ELSE aged

\* Mutant of isDead: a particle whose life is exactly 0 is kept.
isDead_Strict(d) == d.life < 0

isDead(d) == d.life <= 0

\* update(), lines 323-326: the dead particles leave the active set and go
\* back to the pool (resetParticle does not throw).
RECURSIVE removeDead(_, _, _, _)
removeDead(m, particlesToRemove, i, now) ==
    IF i > Len(particlesToRemove) THEN m
    ELSE LET particle == particlesToRemove[i] IN
         removeDead([m EXCEPT !.activeParticles = SetDelete(@, particle),
                              !.data = Without(@, particle),
                              !.pool = release(@, particle, {}, now)],
                    particlesToRemove, i + 1, now)

\* The particles update() finds dead, in the order of the active set.
particlesToRemove(m, deltaTime) ==
    SelectSeq(m.activeParticles,
              LAMBDA particle : isDead(particleUpdate(m.data[particle], deltaTime)))

\* update(deltaTime); now is the value of Date.now() in the pool's shrink check.
update(m, deltaTime, now) ==
    IF ~m.enabled THEN m
    ELSE removeDead(
           [m EXCEPT !.spawnTimer = @ + deltaTime,
                     !.data = [particle \in DOMAIN @ |->
                                  particleUpdate(@[particle], deltaTime)]],
           particlesToRemove(m, deltaTime), 1, now)

\* spawnDataFlow(), line 334: the interval 1 / spawnRate seconds has not elapsed.
tooEarly(m) == m.spawnTimer * m.config.spawnRate < 10

\* spawnDataFlow(fromDistrict, toDistrict, color).
spawnDataFlow(m, travelTime, velocityY) ==
    IF tooEarly(m) THEN [manager |-> m, result |-> "early", obj |-> NoObject]
    ELSE LET r == spawnParticle(m, travelTime, velocityY) IN
         IF r.result = "throw" THEN r
         ELSE [r EXCEPT !.manager.spawnTimer = 0]

\* spawnBurst(center, count, type, color), the loop from iteration i on;
\* travelTimes[i + 1] is the life of the particle of iteration i and
\* velocities[i + 1] its vertical velocity.
RECURSIVE spawnBurstFrom(_, _, _, _, _)
spawnBurstFrom(m, i, count, travelTimes, velocities) ==
    IF i >= count THEN [manager |-> m, result |-> "done", obj |-> NoObject]
    ELSE LET r == spawnParticle(m, travelTimes[i + 1], velocities[i + 1]) IN
         IF r.result = "throw" THEN r
         ELSE spawnBurstFrom(r.manager, i + 1, count, travelTimes, velocities)

spawnBurst(m, count, travelTimes, velocities) ==
    spawnBurstFrom(m, 0, count, travelTimes, velocities)

\* The presets of setQuality (lines 369-382): maxParticles 50, 100 and 200 in
\* the source, scaled here to 1, 2 and 3; the spawn rates are the source's.
QualityPresets ==
    [low |-> [maxParticles |-> 1, spawnRate |-> 2],
     medium |-> [maxParticles |-> 2, spawnRate |-> 5],
     high |-> [maxParticles |-> 3, spawnRate |-> 10]]

Qualities == {"low", "medium", "high"}

\* Mutant of setQuality: the particles above the new maximum are dropped.
setQuality_Truncates(m, quality) ==
    LET n == QualityPresets[quality].maxParticles
        kept == SubSeq(m.activeParticles, 1, Min(n, Len(m.activeParticles)))
    IN  [m EXCEPT !.config.quality = quality,
                  !.config.maxParticles = n,
                  !.config.spawnRate = QualityPresets[quality].spawnRate,
                  !.activeParticles = kept,
                  !.data = [particle \in SeqToSet(kept) |-> @[particle]]]

\* setQuality(quality).
setQuality(m, quality) ==
    [m EXCEPT !.config.quality = quality,
              !.config.maxParticles = QualityPresets[quality].maxParticles,
              !.config.spawnRate = QualityPresets[quality].spawnRate]

\* setEnabled(enabled).
setEnabled(m, e) == [m EXCEPT !.enabled = e]

\* Mutant of clearAllParticles: the set is cleared, the pool is not told.
clearAllParticles_KeepsPool(m, now) ==
    [m EXCEPT !.activeParticles = <<>>, !.data = <<>>]

\* clearAllParticles(): every active particle is released, then the set is
\* cleared.
clearAllParticles(m, now) ==
    [m EXCEPT !.pool = releaseEach(@, m.activeParticles, 1, {}, now),
              !.activeParticles = <<>>,
              !.data = <<>>]

\* ------------------------------------------------------------ configurations
\* The configurations the constructor accepts: initialize() calls
\* createObject() initialSize times, which throws beyond maxSize.
\* initialSize <= maxSize in all of them. With maxSize = MaxObjects the pool can
\* hold every object of the model at once (checkShrink removes a quarter of
\* the available list, rounded down, so it acts on four objects or more).
Configs ==
    {c \in [initialSize : 0..MaxObjects,
            maxSize : {MaxObjects - 2, MaxObjects},
            autoGrow : BOOLEAN,
            autoShrink : BOOLEAN,
            shrinkThresholdPct : {50}] :
        c.initialSize <= c.maxSize}

\* The configurations whose maxSize is below the object supply: the pool can
\* replace the objects it has disposed.
SmallConfigs == {c \in Configs : c.maxSize < MaxObjects}

\* Those of them that start full or nearly so and never run checkShrink.
BatchConfigs ==
    {c \in SmallConfigs : c.initialSize >= c.maxSize - 1 /\ ~c.autoShrink}

\* Growing, shrinking pools with room for one object more: checkShrink then
\* acts while an object is still active (one active object of five is a
\* utilization below the threshold).
ShrinkConfigs ==
    [initialSize : 1..(MaxObjects - 3),
     maxSize : {MaxObjects + 1},
     autoGrow : {TRUE},
     autoShrink : {TRUE},
     shrinkThresholdPct : {50}]

\* The pool of the end-to-end scenario: five objects at first, ten at most,
\* growing on demand, with or without automatic shrinking.
ScenarioConfigs ==
    [initialSize : {5},
     maxSize : {10},
     autoGrow : {TRUE},
     autoShrink : BOOLEAN,
     shrinkThresholdPct : {50}]

\* Growing pools with room for one object more, shrinking or not.
ClearConfigs ==
    [initialSize : {1},
     maxSize : {MaxObjects + 1},
     autoGrow : {TRUE},
     autoShrink : BOOLEAN,
     shrinkThresholdPct : {50}]

\* The objects a call acquiring up to count objects can take when at most one
\* is rejected: the top of the available list and the next fresh object.
Takeable(p, count) ==
    {p.available[i] : i \in {j \in 1..Len(p.available) : j >= Len(p.available) - count}}
        \cup (IF count > 0 THEN {createFn(p)} ELSE {})

\* What the validator may reject during one call: nothing, or one object of objs.
RejectSets(objs) == {{}} \cup {{o} : o \in objs}

\* What resetFn may throw on during one call: nothing, or one object of objs.
FaultSets(objs) == {{}} \cup {{o} : o \in objs}

\* What Date.now() may read during one call (read by checkShrink only).
NowValues == IF config.autoShrink THEN ClockValues ELSE {0}

\* The argument lists of batchRelease: objects the application holds. release
\* treats every object that is not active alike, so one of them stands for all.
Releasable ==
    SeqToSet(active) \cup
        (IF constructed \subseteq SeqToSet(active) THEN {}
         ELSE {CHOOSE o \in constructed : o \notin SeqToSet(active)})

ObjectLists == UNION {[1..n -> Releasable] : n \in 0..MaxBatch}

\* The counters and the object supply stay within the bounds of the model.
WithinBounds(p) ==
    /\ Cardinality(p.constructed) <=
           (IF config.maxSize > MaxObjects THEN config.maxSize ELSE MaxObjects)
    /\ p.stats.reused <= MaxReused

\* ---------------------------------------------------------------------- Init
\* The pool after its constructor: initialize() has filled the available list.
Constructed(configs) ==
    /\ config \in configs
    /\ available = [i \in 1..config.initialSize |-> i]
    /\ active = <<>>
    /\ stats = [total |-> config.initialSize, active |-> 0,
                available |-> config.initialSize, created |-> config.initialSize,
                reused |-> 0, disposed |-> 0, peak |-> 0]
    /\ lastShrinkCheck = 0
    /\ constructed = 1..config.initialSize
    /\ disposedObjs = {}
    /\ pc = "idle"
    /\ last = "ok"

\* A pool used on its own: no particle manager is at work.
NoParticleSystem ==
    /\ activeParticles = <<>>
    /\ particleData = <<>>
    /\ spawnTimer = 0
    /\ particleConfig = [maxParticles |-> 0, spawnRate |-> 2, quality |-> "low",
                         enablePhysics |-> TRUE]
    /\ enabled = TRUE
    /\ spawned = "none"

\* No level-of-detail manager is at work.
NoLODManager ==
    /\ lodObjects = <<>>
    /\ visibleObjects = {}
    /\ lodConfig = [distances |-> <<50, 100, 200>>, enableFrustumCulling |-> TRUE,
                    updateFrequency |-> 30]
    /\ lastUpdateTime = 0
    /\ updateInterval = 100
    /\ scene = <<>>
    /\ lodLast = "none"

\* No frame scheduler is at work.
NoAnimationLoop ==
    /\ isRunning = FALSE
    /\ isPaused = FALSE
    /\ animationId = "null"
    /\ lastTime = 0
    /\ elapsedTime = 0
    /\ tickDelta = 0
    /\ accumulator = 0
    /\ frameTimeHistory = <<>>
    /\ loopConfig = [targetFPS |-> 60, enableAdaptiveFrameRate |-> FALSE,
                     enablePerformanceTracking |-> FALSE, maxDeltaTime |-> 100,
                     enableFixedTimeStep |-> FALSE, fixedTimeStep |-> 16]
    /\ callbacks = {}
    /\ pendingFrames = 0
    /\ pendingTimers = 0
    /\ clock = 0
    /\ hasError = FALSE
    /\ hookLog = <<>>
    /\ loopLast = [call |-> "none", outcome |-> "none", at |-> 0]

\* No camera is at work.
NoCamera ==
    /\ cameraState = [distance |-> 140, angle |-> 0, elevation |-> 1099, fov |-> 45]
    /\ targetState = cameraState
    /\ cameraConfig = [initialDistance |-> 140, fov |-> 45, smoothing |-> 1]
    /\ isTransitioning = FALSE

AcquireReleaseInit == Constructed(Configs) /\ NoParticleSystem /\ NoLODManager /\ NoAnimationLoop /\ NoCamera

PoolInit == Constructed(SmallConfigs) /\ NoParticleSystem /\ NoLODManager /\ NoAnimationLoop /\ NoCamera

BatchInit == Constructed(BatchConfigs) /\ NoParticleSystem /\ NoLODManager /\ NoAnimationLoop /\ NoCamera

ShrinkInit == Constructed(ShrinkConfigs) /\ NoParticleSystem /\ NoLODManager /\ NoAnimationLoop /\ NoCamera

ScenarioInit == Constructed(ScenarioConfigs) /\ NoParticleSystem /\ NoLODManager /\ NoAnimationLoop /\ NoCamera

ClearInit == Constructed(ClearConfigs) /\ NoParticleSystem /\ NoLODManager /\ NoAnimationLoop /\ NoCamera

\* ------------------------------------------------------------------- actions
\* One activation of acquire(), validateFn answering valid: the pool after it,
\* where the call stands, and how it ended.
AcquireStep(valid) ==
    LET r == acquireOnce(Pool, valid) IN
      /\ WithinBounds(r.pool)
      /\ Install(r.pool)
      /\ pc' = IF r.result = "retry" THEN "acquire" ELSE "idle"
      /\ last' = IF r.result = "throw" THEN "exhausted" ELSE r.result
      /\ UNCHANGED config

\* A call of acquire() by the application: its first activation.
AcquireCall ==
    /\ pc = "idle"
    /\ \E valid \in BOOLEAN : AcquireStep(valid)

\* The recursive call of acquire() after a failed validation (line 116).
AcquireRetry ==
    /\ pc = "acquire"
    /\ \E valid \in BOOLEAN : AcquireStep(valid)

\* release(obj) with resetFn throwing or not and Date.now() reading now.
ReleaseOf(obj, fault, now) ==
    LET faults == IF fault THEN {obj} ELSE {}
        q == release(Pool, obj, faults, now)
    IN  /\ pc = "idle"
        /\ Install(q)
        /\ last' = IF releaseResult(Pool, obj, faults) # "ok"
                   THEN releaseResult(Pool, obj, faults)
                   ELSE IF Len(q.available) <= Len(available) THEN "shrunk" ELSE "ok"
        /\ UNCHANGED <<config, pc>>

\* release(obj), for any object the application may hold a reference to.
Release ==
    \E obj \in constructed :
       \E fault \in IF isActive(Pool, obj) THEN BOOLEAN ELSE {FALSE} :
          \E now \in IF isActive(Pool, obj) /\ ~fault THEN NowValues ELSE {0} :
             ReleaseOf(obj, fault, now)

ReleaseAll ==
    /\ pc = "idle"
    /\ \E faults \in FaultSets(SeqToSet(active)), now \in NowValues :
         Install(releaseAll(Pool, faults, now))
    /\ last' = "ok"
    /\ UNCHANGED <<config, pc>>

\* batchAcquire(count).
BatchAcquireOf(count, rejects, faults, now) ==
    LET r == batchAcquire(Pool, count, rejects, faults, now) IN
      /\ pc = "idle"
      /\ WithinBounds(r.pool)
      /\ Install(r.pool)
      /\ last' = IF r.result = "ok" THEN "ok"
                 ELSE IF Len(r.objects) > 0 THEN "rollback" ELSE "throw"
      /\ UNCHANGED <<config, pc>>

BatchAcquire ==
    \E count \in 0..MaxBatch :
       \E rejects \in RejectSets(Takeable(Pool, count)),
          faults \in FaultSets(Takeable(Pool, count)), now \in NowValues :
          BatchAcquireOf(count, rejects, faults, now)

BatchRelease ==
    /\ pc = "idle"
    /\ \E objects \in ObjectLists, now \in NowValues :
         \E faults \in FaultSets(SeqToSet(objects)) :
            Install(batchRelease(Pool, objects, faults, now))
    /\ last' = "ok"
    /\ UNCHANGED <<config, pc>>

Clear ==
    /\ pc = "idle"
    /\ \E faults \in FaultSets(SeqToSet(active)), now \in NowValues :
         /\ Install(clear(Pool, faults, now))
         /\ last' = IF active = <<>> THEN "clearIdle"
                    ELSE IF shrunkWhileReleasing(Pool, faults, now)
                    THEN "clearShrunk" ELSE "cleared"
    /\ UNCHANGED <<config, pc>>

\* resize(newSize).
ResizeTo(newSize) ==
    LET r == resize(Pool, newSize) IN
      /\ pc = "idle"
      /\ WithinBounds(r.pool)
      /\ Install(r.pool)
      /\ last' = IF r.result = "throw" THEN "throw"
                 ELSE IF getTotalSize(r.pool) > newSize THEN "shortfall" ELSE "ok"
      /\ UNCHANGED <<config, pc>>

Resize == \E newSize \in (0 - 1)..(config.maxSize + 1) : ResizeTo(newSize)

WarmUp ==
    /\ pc = "idle"
    /\ \E count \in 0..MaxBatch :
         \E rejects \in RejectSets(Takeable(Pool, count)),
            faults \in FaultSets(Takeable(Pool, count)), now \in NowValues :
         LET r == warmUp(Pool, count, rejects, faults, now) IN
           /\ WithinBounds(r.pool)
           /\ Install(r.pool)
           /\ last' = IF r.result = "ok" THEN "ok"
                      ELSE IF Len(r.objects) > 0 THEN "rollback" ELSE "throw"
    /\ UNCHANGED <<config, pc>>

Validate ==
    /\ pc = "idle"
    /\ \E rejects \in RejectSets(SeqToSet(available)) :
         Install(validate(Pool, rejects))
    /\ last' = "ok"
    /\ UNCHANGED <<config, pc>>

\* The calls that take or give back one object, and the maintenance calls.
PoolNext ==
    \/ AcquireCall /\ UNCHANGED <<particleVars, lodVars, loopVars, cameraVars>>
    \/ AcquireRetry /\ UNCHANGED <<particleVars, lodVars, loopVars, cameraVars>>
    \/ Release /\ UNCHANGED <<particleVars, lodVars, loopVars, cameraVars>>
    \/ ReleaseAll /\ UNCHANGED <<particleVars, lodVars, loopVars, cameraVars>>
    \/ Clear /\ UNCHANGED <<particleVars, lodVars, loopVars, cameraVars>>
    \/ Resize /\ UNCHANGED <<particleVars, lodVars, loopVars, cameraVars>>
    \/ Validate /\ UNCHANGED <<particleVars, lodVars, loopVars, cameraVars>>

PoolSpec == PoolInit /\ [][PoolNext]_vars

\* The calls that change the size of the pool, the batch calls among them.
BatchNext ==
    \/ AcquireCall /\ UNCHANGED <<particleVars, lodVars, loopVars, cameraVars>>
    \/ AcquireRetry /\ UNCHANGED <<particleVars, lodVars, loopVars, cameraVars>>
    \/ Release /\ UNCHANGED <<particleVars, lodVars, loopVars, cameraVars>>
    \/ Resize /\ UNCHANGED <<particleVars, lodVars, loopVars, cameraVars>>
    \/ BatchAcquire /\ UNCHANGED <<particleVars, lodVars, loopVars, cameraVars>>
    \/ BatchRelease /\ UNCHANGED <<particleVars, lodVars, loopVars, cameraVars>>
    \/ WarmUp /\ UNCHANGED <<particleVars, lodVars, loopVars, cameraVars>>

BatchSpec == BatchInit /\ [][BatchNext]_vars

\* acquire and release alone, also on pools large enough for checkShrink to act.
AcquireReleaseNext ==
    \/ AcquireCall /\ UNCHANGED <<particleVars, lodVars, loopVars, cameraVars>>
    \/ AcquireRetry /\ UNCHANGED <<particleVars, lodVars, loopVars, cameraVars>>
    \/ Release /\ UNCHANGED <<particleVars, lodVars, loopVars, cameraVars>>

AcquireReleaseSpec == AcquireReleaseInit /\ [][AcquireReleaseNext]_vars

\* acquire and release on the growing, shrinking pools.
ShrinkSpec == ShrinkInit /\ [][AcquireReleaseNext]_vars

\* acquire() of an application whose validateFn accepts every object.
AcquireValid ==
    /\ pc = "idle"
    /\ AcquireStep(TRUE)

\* release(obj) of an active object, resetFn returning.
ReleaseActive ==
    \E obj \in SeqToSet(active), now \in NowValues : ReleaseOf(obj, FALSE, now)

\* acquire, release and clear on the growing pools; resetFn may throw in clear.
ClearNext ==
    \/ AcquireValid /\ UNCHANGED <<particleVars, lodVars, loopVars, cameraVars>>
    \/ ReleaseActive /\ UNCHANGED <<particleVars, lodVars, loopVars, cameraVars>>
    \/ Clear /\ UNCHANGED <<particleVars, lodVars, loopVars, cameraVars>>

ClearSpec == ClearInit /\ [][ClearNext]_vars

\* ------------------------------------------------------ the particle manager
\* The ParticleConfig handed to the constructor: a maxParticles above the size
\* of the pool (setQuality sets the smaller ones), the spawn rate and quality
\* of the medium preset.
ParticleConfigs ==
    [maxParticles : {3}, spawnRate : {5}, quality : {"medium"},
     enablePhysics : {TRUE}]

\* The pool of the constructor (lines 205-209): created with createParticle,
\* resetParticle and the initial size min(50, maxParticles), every other field
\* at its default: maxSize 1000, autoGrow, autoShrink, shrinkThreshold 0.5,
\* validateFn accepting everything. The sizes 50 and 1000 are scaled to 1 and 2:
\* the pool is exhausted by a manager whose maxParticles is above its maxSize.
particlePoolConfig(maxParticles) ==
    [initialSize |-> Min(1, maxParticles),
     maxSize |-> 2,
     autoGrow |-> TRUE,
     autoShrink |-> TRUE,
     shrinkThresholdPct |-> 50]

ParticleInitOf(configs) ==
    /\ particleConfig \in configs
    /\ Constructed({particlePoolConfig(particleConfig.maxParticles)})
    /\ activeParticles = <<>>
    /\ particleData = <<>>
    /\ spawnTimer = 0
    /\ enabled = TRUE
    /\ spawned = "none"
    /\ NoLODManager /\ NoAnimationLoop /\ NoCamera

ParticleInit == ParticleInitOf(ParticleConfigs)

TravelTimes == 0..MaxLife

DeltaTimes == 0..MaxLife

\* The longest interval between two spawns of spawnDataFlow, that of the lowest
\* spawn rate: the model follows spawnTimer up to it (the timer grows with
\* every update and is compared with the interval only).
LongestInterval == 10 \div QualityPresets.low.spawnRate

\* spawnParticle(from, to): the distance and the random speed give travelTime,
\* and the difference of the heights gives velocityY.
SpawnParticleWith(travelTime, velocityY) ==
    LET r == spawnParticle(Manager, travelTime, velocityY) IN
      /\ WithinBounds(r.manager.pool)
      /\ InstallManager(r.manager)
      /\ spawned' = r.result
      /\ UNCHANGED <<config, pc, last>>

\* spawnParticle(from, to) with from and to at the same height.
SpawnParticleOf(travelTime) == SpawnParticleWith(travelTime, 0)

SpawnParticle == \E travelTime \in TravelTimes : SpawnParticleOf(travelTime)

SpawnDataFlowOf(travelTime) ==
    LET r == spawnDataFlow(Manager, travelTime, 0) IN
      /\ WithinBounds(r.manager.pool)
      /\ InstallManager(r.manager)
      /\ spawned' = r.result
      /\ UNCHANGED <<config, pc, last>>

SpawnDataFlow == \E travelTime \in TravelTimes : SpawnDataFlowOf(travelTime)

\* spawnBurst(center, count): every target is at least 10 units from the
\* center, so every life is positive; Math.random() gives every target the
\* height of the center.
SpawnBurst ==
    \E count \in 0..2 :
       \E travelTimes \in [1..count -> 1..MaxLife] :
          LET r == spawnBurst(Manager, count, travelTimes, [i \in 1..count |-> 0]) IN
            /\ WithinBounds(r.manager.pool)
            /\ InstallManager(r.manager)
            /\ spawned' = r.result
            /\ UNCHANGED <<config, pc, last>>

\* update(deltaTime).
UpdateOf(deltaTime, now) ==
    LET m == update(Manager, deltaTime, now) IN
      /\ m.spawnTimer <= LongestInterval
      /\ InstallManager(m)
      /\ spawned' = IF Len(m.activeParticles) < Len(activeParticles)
                    THEN "expired" ELSE "none"
      /\ UNCHANGED <<config, pc, last>>

Update == \E deltaTime \in DeltaTimes, now \in NowValues : UpdateOf(deltaTime, now)

SetQualityTo(quality) ==
    /\ InstallManager(setQuality(Manager, quality))
    /\ spawned' = "none"
    /\ UNCHANGED <<config, pc, last>>

SetQuality == \E quality \in Qualities : SetQualityTo(quality)

SetEnabled ==
    /\ \E e \in BOOLEAN : InstallManager(setEnabled(Manager, e))
    /\ spawned' = "none"
    /\ UNCHANGED <<config, pc, last>>

ClearAllParticles ==
    /\ \E now \in NowValues : InstallManager(clearAllParticles(Manager, now))
    /\ spawned' = "none"
    /\ UNCHANGED <<config, pc, last>>

ParticleNext ==
    \/ SpawnParticle /\ UNCHANGED <<lodVars, loopVars, cameraVars>>
    \/ SpawnDataFlow /\ UNCHANGED <<lodVars, loopVars, cameraVars>>
    \/ SpawnBurst /\ UNCHANGED <<lodVars, loopVars, cameraVars>>
    \/ Update /\ UNCHANGED <<lodVars, loopVars, cameraVars>>
    \/ SetQuality /\ UNCHANGED <<lodVars, loopVars, cameraVars>>
    \/ ClearAllParticles /\ UNCHANGED <<lodVars, loopVars, cameraVars>>

ParticleSpec == ParticleInit /\ [][ParticleNext]_vars

\* Spawning and ageing, on a manager that may be switched off and on.
ExpiryNext ==
    \/ SpawnParticle /\ UNCHANGED <<lodVars, loopVars, cameraVars>>
    \/ Update /\ UNCHANGED <<lodVars, loopVars, cameraVars>>
    \/ SetEnabled /\ UNCHANGED <<lodVars, loopVars, cameraVars>>

ExpirySpec == ParticleInit /\ [][ExpiryNext]_vars

\* ------------------------------------------------------------------ gravity
\* The manager is configured with or without physics.
PhysicsConfigs ==
    [maxParticles : {2}, spawnRate : {5}, quality : {"medium"},
     enablePhysics : BOOLEAN]

\* The vertical velocities of the spawns: level, at the terminal velocity, just
\* above it and below it.
Velocities == {0, -9990, -10000, -20000}

SpawnFalling ==
    \E travelTime \in TravelTimes, velocityY \in Velocities :
       SpawnParticleWith(travelTime, velocityY)

PhysicsNext ==
    \/ SpawnFalling /\ UNCHANGED <<lodVars, loopVars, cameraVars>>
    \/ Update /\ UNCHANGED <<lodVars, loopVars, cameraVars>>

PhysicsSpec == ParticleInitOf(PhysicsConfigs) /\ [][PhysicsNext]_vars

\* ---------------------------------------------------- the end-to-end scenario
\* The script: acquire ten objects, try an eleventh, release three, acquire two.
\* The validator accepts every object and resetFn never throws, so the position
\* in the script can be read off the pool: the acquires that succeeded so far
\* and the objects given back so far.
acquiredSoFar == stats.reused + stats.created - config.initialSize

releasedSoFar == acquiredSoFar - Len(active)

\* acquire() called by the script (validateFn answers true).
ScenarioAcquire ==
    /\ pc = "idle"
    /\ \/ acquiredSoFar < 10 /\ releasedSoFar = 0
       \/ acquiredSoFar = 10 /\ releasedSoFar = 0 /\ last # "exhausted"
       \/ acquiredSoFar \in 10..11 /\ releasedSoFar = 3
    /\ LET r == acquireOnce(Pool, TRUE) IN
         /\ Install(r.pool)
         /\ last' = IF r.result = "throw" THEN "exhausted" ELSE r.result
    /\ UNCHANGED <<config, pc>>

\* release(obj) called by the script on an object it holds, after the eleventh
\* acquire has failed.
ScenarioRelease ==
    /\ acquiredSoFar = 10
    /\ releasedSoFar < 3
    /\ last = "exhausted" \/ releasedSoFar > 0
    /\ \E obj \in SeqToSet(active), now \in NowValues : ReleaseOf(obj, FALSE, now)

ScenarioNext ==
    \/ ScenarioAcquire /\ UNCHANGED <<particleVars, lodVars, loopVars, cameraVars>>
    \/ ScenarioRelease /\ UNCHANGED <<particleVars, lodVars, loopVars, cameraVars>>

ScenarioSpec == ScenarioInit /\ [][ScenarioNext]_vars

\* ============================================================== LODManager
\* Times are in thirds of a millisecond, so that 1000 / updateFrequency is a
\* whole number for the frequencies of the quality profiles.  A tracked object
\* is identified by its uuid, a number here.  scene[id] is what the scene graph
\* and the camera give for the object when update() looks: the distance from
\* the camera position to its world position, and whether its bounding sphere
\* intersects the frustum of the camera.

\* lastDistance: Infinity of a freshly added object (line 166): farther than
\* every distance of the scene.
Infinity == 1000000

\* Math.abs
abs(x) == IF x < 0 THEN -x ELSE x

\* The fields of one LODManager, bundled so that the methods compose.
LOD == [lodObjects |-> lodObjects, visibleObjects |-> visibleObjects,
        config |-> lodConfig, lastUpdateTime |-> lastUpdateTime,
        updateInterval |-> updateInterval]

InstallLOD(l) ==
    /\ lodObjects' = l.lodObjects
    /\ visibleObjects' = l.visibleObjects
    /\ lodConfig' = l.config
    /\ lastUpdateTime' = l.lastUpdateTime
    /\ updateInterval' = l.updateInterval

\* An object tracked without a component, and a component with the hook
\* setLOD that has not been called yet: lod holds the arguments of the last
\* call of the hook.
NoComponent == [hasSetLOD |-> FALSE, lod |-> <<>>]

FreshComponent == [hasSetLOD |-> TRUE, lod |-> <<>>]

\* addObject(object, component?): a fresh LODObject under the uuid of the
\* object; an object tracked already gets a fresh record too (Map.set).  Of
\* the object the model keeps the field visible.
addObject(l, object, component) ==
    [l EXCEPT !.lodObjects =
        With(@, object.uuid,
             [object |-> [visible |-> object.visible],
              component |-> component,
              lastDistance |-> Infinity, lastLODLevel |-> "high",
              isVisible |-> TRUE, forceUpdate |-> TRUE])]

\* removeObject(objectId)
removeObject(l, id) ==
    IF id \in DOMAIN l.lodObjects
    THEN [l EXCEPT !.lodObjects = Without(@, id),
                   !.visibleObjects = @ \ {id}]
    ELSE l

\* setObjectVisibility(lodObject, visible): nothing when the flag has the
\* value already.
setObjectVisibility(l, id, visible) ==
    IF l.lodObjects[id].isVisible = visible
    THEN l
    ELSE [l EXCEPT !.lodObjects[id].object.visible = visible,
                   !.lodObjects[id].isVisible = visible,
                   !.visibleObjects = IF visible THEN @ \cup {id} ELSE @ \ {id}]

\* Mutant of distanceChanged: a hysteresis of 100 units.
distanceChanged_Wide(distance, lastDistance) == abs(distance - lastDistance) > 100

\* const distanceChanged = Math.abs(distance - lodObject.lastDistance) > 5
distanceChanged(distance, lastDistance) == abs(distance - lastDistance) > 5

\* The chain of comparisons of updateLODObject (lines 286-304): the level of
\* a distance under the thresholds [highDist, mediumDist, lowDist], or culled.
newLODLevel(distance, distances) ==
    IF distance <= distances[1] THEN "high"
    ELSE IF distance <= distances[2] THEN "medium"
    ELSE IF distance <= distances[3] THEN "low"
    ELSE "culled"

\* Mutant of cull: the level is set, the object stays as visible as it was.
cull_KeepsVisible(l, id) ==
    [l EXCEPT !.lodObjects[id].lastLODLevel = "culled"]

\* The object is culled (lines 279-282 and 299-303).
cull(l, id) ==
    [setObjectVisibility(l, id, FALSE) EXCEPT !.lodObjects[id].lastLODLevel = "culled"]

\* applyLODLevel(lodObject, level, distance): the hook of the component gets
\* the distance and the thresholds.  The generic level of detail of the
\* object and the event are not part of the model.
applyLODLevel(l, id, level, distance) ==
    IF l.lodObjects[id].component.hasSetLOD
    THEN [l EXCEPT !.lodObjects[id].component.lod = <<distance, l.config.distances>>]
    ELSE l

\* updateLODObject(lodObject, cameraPosition, camera): camera tells whether a
\* camera was supplied, position is scene[id].
updateLODObject(l, id, position, camera) ==
    LET lodObject == l.lodObjects[id]
        distance == position.distance
    IN IF ~lodObject.forceUpdate /\ ~distanceChanged(distance, lodObject.lastDistance)
       THEN l
       ELSE
         LET seen == [l EXCEPT !.lodObjects[id].lastDistance = distance,
                               !.lodObjects[id].forceUpdate = FALSE]
             isInFrustum == IF camera /\ l.config.enableFrustumCulling
                            THEN position.inFrustum ELSE TRUE
             level == newLODLevel(distance, l.config.distances)
         IN IF ~isInFrustum THEN cull(seen, id)
            ELSE IF level = "culled" THEN cull(seen, id)
            ELSE
              LET shown == setObjectVisibility(seen, id, TRUE) IN
                IF level # lodObject.lastLODLevel \/ shown.lodObjects[id].forceUpdate
                THEN [applyLODLevel(shown, id, level, distance)
                        EXCEPT !.lodObjects[id].lastLODLevel = level]
                ELSE shown

\* this.lodObjects.forEach(...) of update (lines 223-225), over the ids left.
RECURSIVE updateEach(_, _, _, _)
updateEach(l, ids, positions, camera) ==
    IF ids = {} THEN l
    ELSE LET id == CHOOSE i \in ids : \A j \in ids : i <= j IN
           updateEach(updateLODObject(l, id, positions[id], camera),
                      ids \ {id}, positions, camera)

\* Throttle updates based on frequency (line 205).
throttled(l, now) == now - l.lastUpdateTime < l.updateInterval

\* update(cameraPosition, camera?) when performance.now() reads now.
lodUpdate(l, positions, camera, now) ==
    IF throttled(l, now) THEN l
    ELSE [updateEach(l, DOMAIN l.lodObjects, positions, camera)
             EXCEPT !.lastUpdateTime = now]

\* markAllForUpdate()
markAllForUpdate(l) ==
    [l EXCEPT !.lodObjects = [id \in DOMAIN @ |-> [@[id] EXCEPT !.forceUpdate = TRUE]]]

\* setDistances(distances)
setDistances(l, distances) ==
    markAllForUpdate([l EXCEPT !.config.distances = distances])

\* enableFrustumCulling(enabled)
enableFrustumCulling(l, e) ==
    markAllForUpdate([l EXCEPT !.config.enableFrustumCulling = e])

\* Math.max
Max(a, b) == IF a >= b THEN a ELSE b

\* 1000 / updateFrequency, in thirds of a millisecond.
intervalOf(updateFrequency) == (1000 * 3) \div updateFrequency

\* setUpdateFrequency(frequency)
setUpdateFrequency(l, frequency) ==
    LET clamped == Max(5, Min(60, frequency)) IN
      [l EXCEPT !.config.updateFrequency = clamped,
                !.updateInterval = intervalOf(clamped)]

\* The quality profiles of adjustQualitySettings (lines 99-112).
LODProfiles ==
    [low    |-> [distances |-> <<75, 150, 300>>, updateFrequency |-> 15],
     medium |-> [distances |-> <<60, 120, 250>>, updateFrequency |-> 20],
     high   |-> [distances |-> <<50, 100, 200>>, updateFrequency |-> 30]]

\* adjustQualitySettings(quality): the listener of 'performance:quality-change'.
adjustQualitySettings(l, quality) ==
    markAllForUpdate(
        [l EXCEPT !.config.distances = LODProfiles[quality].distances,
                  !.config.updateFrequency = LODProfiles[quality].updateFrequency,
                  !.updateInterval = intervalOf(LODProfiles[quality].updateFrequency)])

\* The factor of a view mode, in tenths: 1.2 for city, 0.6 for network; the
\* mode transition leaves the distances alone.
viewModeFactor(viewMode) ==
    IF viewMode = "city" THEN 12 ELSE IF viewMode = "network" THEN 6 ELSE 10

\* baseDistances[i] * factor
scaledBy(distances, tenths) == [i \in 1..3 |-> (distances[i] * tenths) \div 10]

\* The product is a whole number of units: the model follows it exactly.
exactlyScaled(distances, tenths) == \A i \in 1..3 : (distances[i] * tenths) % 10 = 0

\* handleViewModeChange(viewMode): the subscriber of the state 'viewMode'.
\* baseDistances is this.config.distances, the distances of the moment.
handleViewModeChange(l, viewMode) ==
    markAllForUpdate(
        [l EXCEPT !.config.distances = scaledBy(@, viewModeFactor(viewMode))])

\* dispose()
lodDispose(l) == [l EXCEPT !.lodObjects = <<>>, !.visibleObjects = {}]

\* ---------------------------------------------------- the LOD manager at work
\* The uuids of the objects of the scene.
ObjectIds == 1..2

\* Distances from the camera: one of each level under the default thresholds
\* (48 high, 52 medium, 150 low, 250 culled); 48 and 52 are within the
\* hysteresis of each other, on either side of the first threshold.
Distances == {48, 52, 150, 250}

Positions == [distance : Distances, inFrustum : BOOLEAN]

\* The default thresholds and those of the low quality profile.
Thresholds == {<<50, 100, 200>>, <<75, 150, 300>>}

\* The configurations handed to the constructor: the defaults, frustum culling
\* on or off.
LODConfigs ==
    [distances : {<<50, 100, 200>>}, enableFrustumCulling : BOOLEAN,
     updateFrequency : {30}]

\* What performance.now() may read: multiples of the interval of 30 Hz.
Frames == {k * 100 : k \in 0..MaxFrames}

\* No pool and no particle manager are at work.
NoPool ==
    /\ Constructed({[initialSize |-> 0, maxSize |-> 0, autoGrow |-> FALSE,
                     autoShrink |-> FALSE, shrinkThresholdPct |-> 50]})
    /\ NoParticleSystem

\* The manager after its constructor, nothing tracked yet.
LODInit ==
    /\ NoPool
    /\ NoAnimationLoop
    /\ NoCamera
    /\ lodConfig \in LODConfigs
    /\ lodObjects = <<>>
    /\ visibleObjects = {}
    /\ lastUpdateTime = 0
    /\ updateInterval = (1000 * 3) \div lodConfig.updateFrequency
    /\ scene = <<>>
    /\ lodLast = "none"

\* addObject(object): the object is somewhere in the scene, at one of
\* positions; its field visible has one of the values visibles, or the value
\* the manager gave it when the object was tracked before.
AddObjectWith(positions, visibles, components) ==
    \E id \in ObjectIds, position \in positions, component \in components :
     \E visible \in IF id \in DOMAIN lodObjects
                     THEN {lodObjects[id].object.visible} ELSE visibles :
       /\ InstallLOD(addObject(LOD, [uuid |-> id, visible |-> visible], component))
       /\ scene' = IF id \in DOMAIN scene THEN scene ELSE With(scene, id, position)
       /\ lodLast' = "none"

\* addObject(object) without a component.
AddObjectAt(positions, visibles) == AddObjectWith(positions, visibles, {NoComponent})

\* addObject(object) of an object with the default of three.js: visible.
AddObject == AddObjectAt(Positions, {TRUE})

\* removeObject(objectId)
RemoveObject ==
    \E id \in DOMAIN lodObjects :
       /\ InstallLOD(removeObject(LOD, id))
       /\ scene' = Without(scene, id)
       /\ lodLast' = "none"

\* The camera or a tracked object moves or turns between two frames: no code
\* of the manager runs.
MoveSceneTo(positions) ==
    \E id \in DOMAIN scene, position \in positions :
       /\ position # scene[id]
       /\ scene' = [scene EXCEPT ![id] = position]
       /\ lodLast' = "none"
       /\ UNCHANGED <<lodObjects, visibleObjects, lodConfig, lastUpdateTime,
                      updateInterval>>

MoveScene == MoveSceneTo(Positions)

\* update(cameraPosition, camera?)
LODUpdateOf(camera, now) ==
    /\ InstallLOD(lodUpdate(LOD, scene, camera, now))
    /\ lodLast' = IF throttled(LOD, now) THEN "none"
                  ELSE IF camera THEN "updatedWithCamera" ELSE "updated"
    /\ UNCHANGED scene

LODUpdate ==
    \E camera \in BOOLEAN, now \in Frames :
       /\ now >= lastUpdateTime
       /\ LODUpdateOf(camera, now)

\* The listener of 'camera:move' (lines 93-95).
CameraMove ==
    /\ InstallLOD(markAllForUpdate(LOD))
    /\ lodLast' = "none"
    /\ UNCHANGED scene

SetDistances ==
    \E distances \in Thresholds :
       /\ InstallLOD(setDistances(LOD, distances))
       /\ lodLast' = "none"
       /\ UNCHANGED scene

EnableFrustumCulling ==
    \E e \in BOOLEAN :
       /\ InstallLOD(enableFrustumCulling(LOD, e))
       /\ lodLast' = "none"
       /\ UNCHANGED scene

LODNext ==
    \/ AddObject /\ UNCHANGED <<poolVars, particleVars, loopVars, cameraVars>>
    \/ RemoveObject /\ UNCHANGED <<poolVars, particleVars, loopVars, cameraVars>>
    \/ MoveScene /\ UNCHANGED <<poolVars, particleVars, loopVars, cameraVars>>
    \/ LODUpdate /\ UNCHANGED <<poolVars, particleVars, loopVars, cameraVars>>
    \/ CameraMove /\ UNCHANGED <<poolVars, particleVars, loopVars, cameraVars>>
    \/ SetDistances /\ UNCHANGED <<poolVars, particleVars, loopVars, cameraVars>>
    \/ EnableFrustumCulling /\ UNCHANGED <<poolVars, particleVars, loopVars, cameraVars>>

LODSpec == LODInit /\ [][LODNext]_vars

\* ------------------------------------------------ visibility of the objects
\* The objects are near or far, in view or not, and shown or hidden when the
\* application hands them to the manager.
NearFar == [distance : {48, 250}, inFrustum : BOOLEAN]

\* dispose(): nothing is tracked any more.
LODDispose ==
    /\ InstallLOD(lodDispose(LOD))
    /\ scene' = <<>>
    /\ lodLast' = "disposed"

VisibilityNext ==
    \/ AddObjectAt(NearFar, BOOLEAN) /\ UNCHANGED <<poolVars, particleVars, loopVars, cameraVars>>
    \/ RemoveObject /\ UNCHANGED <<poolVars, particleVars, loopVars, cameraVars>>
    \/ MoveSceneTo(NearFar) /\ UNCHANGED <<poolVars, particleVars, loopVars, cameraVars>>
    \/ LODUpdate /\ UNCHANGED <<poolVars, particleVars, loopVars, cameraVars>>
    \/ CameraMove /\ UNCHANGED <<poolVars, particleVars, loopVars, cameraVars>>
    \/ SetDistances /\ UNCHANGED <<poolVars, particleVars, loopVars, cameraVars>>
    \/ EnableFrustumCulling /\ UNCHANGED <<poolVars, particleVars, loopVars, cameraVars>>
    \/ LODDispose /\ UNCHANGED <<poolVars, particleVars, loopVars, cameraVars>>

VisibilitySpec == LODInit /\ [][VisibilityNext]_vars

\* ------------------------------------------------- the hook of the component
\* The objects are in view, within one of the three visible levels, and come
\* with or without a component that has the hook setLOD.
InView == [distance : {48, 52, 150}, inFrustum : {TRUE}]

ComponentNext ==
    \/ AddObjectWith(InView, {TRUE}, {NoComponent, FreshComponent}) /\ UNCHANGED <<poolVars, particleVars, loopVars, cameraVars>>
    \/ MoveSceneTo(InView) /\ UNCHANGED <<poolVars, particleVars, loopVars, cameraVars>>
    \/ LODUpdate /\ UNCHANGED <<poolVars, particleVars, loopVars, cameraVars>>
    \/ CameraMove /\ UNCHANGED <<poolVars, particleVars, loopVars, cameraVars>>

ComponentSpec == LODInit /\ [][ComponentNext]_vars

\* ------------------------------------------- thresholds and update frequency
\* The frequencies asked of setUpdateFrequency: below, within and above the
\* range 5..60 it clamps to.
Frequencies == {1, 20, 100}

ViewModes == {"city", "network", "transition"}

SetUpdateFrequency ==
    \E frequency \in Frequencies :
       /\ InstallLOD(setUpdateFrequency(LOD, frequency))
       /\ lodLast' = "none"
       /\ UNCHANGED scene

\* 'performance:quality-change' is emitted.
AdjustQualitySettings ==
    \E quality \in DOMAIN LODProfiles :
       /\ InstallLOD(adjustQualitySettings(LOD, quality))
       /\ lodLast' = "none"
       /\ UNCHANGED scene

\* The state 'viewMode' changes.
HandleViewModeChange ==
    \E viewMode \in ViewModes :
       /\ exactlyScaled(lodConfig.distances, viewModeFactor(viewMode))
       /\ InstallLOD(handleViewModeChange(LOD, viewMode))
       /\ lodLast' = "none"
       /\ UNCHANGED scene

\* Every object is near the camera and in view.
Near == [distance : {48}, inFrustum : {TRUE}]

LODConfigNext ==
    \/ AddObjectAt(Near, {TRUE}) /\ UNCHANGED <<poolVars, particleVars, loopVars, cameraVars>>
    \/ LODUpdate /\ UNCHANGED <<poolVars, particleVars, loopVars, cameraVars>>
    \/ SetDistances /\ UNCHANGED <<poolVars, particleVars, loopVars, cameraVars>>
    \/ SetUpdateFrequency /\ UNCHANGED <<poolVars, particleVars, loopVars, cameraVars>>
    \/ AdjustQualitySettings /\ UNCHANGED <<poolVars, particleVars, loopVars, cameraVars>>
    \/ HandleViewModeChange /\ UNCHANGED <<poolVars, particleVars, loopVars, cameraVars>>

LODConfigSpec == LODInit /\ [][LODConfigNext]_vars

\* =========================================================== AnimationLoop
\* Times are in milliseconds; deltaTime, elapsedTime, maxDeltaTime, the
\* accumulator and fixedTimeStep, which the source keeps in seconds, are in
\* milliseconds too, so rawDeltaTime / 1000 is rawDeltaTime.  Frame rates are
\* in hundredths of a frame per second.  The host keeps the frame requests and
\* timers that have not run yet: the request whose handle animationId holds
\* is pending when animationId is "pending", pendingFrames counts the others.
\* The frame counter and the performance state published by
\* updatePerformanceState are not part of the model.

\* The fields of one AnimationLoop and of its host, bundled so that the
\* methods compose; log lists the hooks a tick has called.
AnimLoop ==
    [isRunning |-> isRunning, isPaused |-> isPaused, animationId |-> animationId,
     lastTime |-> lastTime, elapsedTime |-> elapsedTime, deltaTime |-> tickDelta,
     accumulator |-> accumulator, frameTimeHistory |-> frameTimeHistory,
     config |-> loopConfig, callbacks |-> callbacks,
     pendingFrames |-> pendingFrames, pendingTimers |-> pendingTimers,
     hasError |-> hasError, log |-> <<>>]

InstallLoop(al) ==
    /\ isRunning' = al.isRunning
    /\ isPaused' = al.isPaused
    /\ animationId' = al.animationId
    /\ lastTime' = al.lastTime
    /\ elapsedTime' = al.elapsedTime
    /\ tickDelta' = al.deltaTime
    /\ accumulator' = al.accumulator
    /\ frameTimeHistory' = al.frameTimeHistory
    /\ loopConfig' = al.config
    /\ callbacks' = al.callbacks
    /\ pendingFrames' = al.pendingFrames
    /\ pendingTimers' = al.pendingTimers
    /\ hasError' = al.hasError
    /\ hookLog' = al.log

\* this.animationId = requestAnimationFrame(this.loop): a request pending
\* under the old handle stays pending.
requestAnimationFrame(al) ==
    [al EXCEPT !.pendingFrames = IF al.animationId = "pending" THEN @ + 1 ELSE @,
               !.animationId = "pending"]

\* setTimeout(() => { this.animationId = requestAnimationFrame(this.loop) },
\* actualDelay): the handle of the timer is not kept.
setTimeout(al) == [al EXCEPT !.pendingTimers = @ + 1]

\* trackPerformance(frameTime): the histories keep the last 60 frames, 2 in
\* the model.
trackPerformance(al, frameTime) ==
    LET pushed == Append(al.frameTimeHistory, frameTime) IN
      [al EXCEPT !.frameTimeHistory = IF Len(pushed) > 2 THEN Tail(pushed) ELSE pushed]

\* 1000 / frameTime, the sample of fpsHistory.
fpsOf(frameTime) == IF frameTime = 0 THEN Infinity ELSE (1000 * 100) \div frameTime

\* getCurrentFPS(): the last sample, 0 without samples.
getCurrentFPS(al) ==
    IF Len(al.frameTimeHistory) > 0
    THEN fpsOf(al.frameTimeHistory[Len(al.frameTimeHistory)])
    ELSE 0

\* getAverageFPS(): the mean of the samples, 0 without samples.
RECURSIVE sumOfFPS(_, _)
sumOfFPS(frameTimes, i) ==
    IF i > Len(frameTimes) THEN 0 ELSE fpsOf(frameTimes[i]) + sumOfFPS(frameTimes, i + 1)

getAverageFPS(al) ==
    IF Len(al.frameTimeHistory) = 0 THEN 0
    ELSE sumOfFPS(al.frameTimeHistory, 1) \div Len(al.frameTimeHistory)

\* The body of getAdaptiveFPS() for a measured rate and the nominal target.
adaptiveFPSFor(currentFPS, targetFPS) ==
    IF currentFPS * 10 < targetFPS * 8 THEN Max(30 * 100, (targetFPS * 75) \div 100)
    ELSE IF currentFPS * 10 > targetFPS * 11 THEN Min(120 * 100, (targetFPS * 11) \div 10)
    ELSE targetFPS

\* getAdaptiveFPS(): the measured rate is getCurrentFPS().
getAdaptiveFPS(al) == adaptiveFPSFor(getCurrentFPS(al), al.config.targetFPS * 100)

\* scheduleAdaptiveFrame(): actualDelay > 0 when 1000 / targetFPS exceeds the
\* milliseconds of deltaTime.
scheduleAdaptiveFrame(al) ==
    IF 1000 * 100 > al.deltaTime * getAdaptiveFPS(al)
    THEN setTimeout(al)
    ELSE requestAnimationFrame(al)

\* Schedule next frame (lines 132-136).
scheduleNextFrame(al) ==
    IF al.config.enableAdaptiveFrameRate
    THEN scheduleAdaptiveFrame(al)
    ELSE requestAnimationFrame(al)

\* The kinds of hooks, in the order a tick calls them.
HookKinds == <<"preUpdate", "update", "render", "postRender">>

\* What a callback of the kind is called with: render callbacks get no times.
hookCall(kind, deltaTime, elapsed) ==
    IF kind = "render" THEN [hook |-> kind]
    ELSE [hook |-> kind, deltaTime |-> deltaTime, elapsedTime |-> elapsed]

\* registry.forEach(callback => callback(...)) for the kinds of the list from
\* index i on: the callback of the kind faulty throws.  Gives the loop with
\* the calls logged, whether a callback has thrown, and whether the caller
\* never returns (hung).
RECURSIVE callHooks(_, _, _, _, _)
callHooks(al, kinds, i, deltaTime, faulty) ==
    IF i > Len(kinds) THEN [loop |-> al, thrown |-> FALSE, hung |-> FALSE]
    ELSE IF kinds[i] \notin al.callbacks
         THEN callHooks(al, kinds, i + 1, deltaTime, faulty)
    ELSE LET called == [al EXCEPT !.log =
                           Append(@, hookCall(kinds[i], deltaTime, al.elapsedTime))]
         IN IF kinds[i] = faulty THEN [loop |-> called, thrown |-> TRUE, hung |-> FALSE]
            ELSE callHooks(called, kinds, i + 1, deltaTime, faulty)

\* render(interpolationAlpha?)
render(al, faulty) == callHooks(al, <<"render", "postRender">>, 1, al.deltaTime, faulty)

\* Mutant of variableTimeStepUpdate: the frame is rendered before the update.
variableTimeStepUpdate_RenderFirst(al, faulty) ==
    LET rendered == render(al, faulty) IN
      IF rendered.thrown THEN rendered
      ELSE callHooks(rendered.loop, <<"preUpdate", "update">>, 1, al.deltaTime, faulty)

\* variableTimeStepUpdate()
variableTimeStepUpdate(al, faulty) ==
    LET updated == callHooks(al, <<"preUpdate", "update">>, 1, al.deltaTime, faulty) IN
      IF updated.thrown THEN updated ELSE render(updated.loop, faulty)

\* The while loop of fixedTimeStepUpdate (lines 148-160).  With a step of 0
\* or less the accumulator does not get smaller and the condition of the
\* loop stays true: unless a callback throws, the loop never ends.
RECURSIVE fixedSteps(_, _)
fixedSteps(al, faulty) ==
    IF al.accumulator >= al.config.fixedTimeStep
    THEN LET stepped == callHooks(al, <<"preUpdate", "update">>, 1,
                                  al.config.fixedTimeStep, faulty)
         IN IF stepped.thrown THEN stepped
            ELSE IF al.config.fixedTimeStep <= 0
            THEN [loop |-> stepped.loop, thrown |-> FALSE, hung |-> TRUE]
            ELSE fixedSteps([stepped.loop EXCEPT !.accumulator =
                                @ - al.config.fixedTimeStep], faulty)
    ELSE [loop |-> al, thrown |-> FALSE, hung |-> FALSE]

\* Mutant of fixedTimeStepUpdate: the accumulator is not capped.
fixedTimeStepUpdate_Uncapped(al, faulty) ==
    LET stepped == fixedSteps([al EXCEPT !.accumulator = @ + al.deltaTime], faulty)
    IN IF stepped.thrown \/ stepped.hung THEN stepped ELSE render(stepped.loop, faulty)

\* fixedTimeStepUpdate(): maxAccumulator is 0.25 s.
fixedTimeStepUpdate(al, faulty) ==
    LET stepped == fixedSteps([al EXCEPT !.accumulator = Min(@ + al.deltaTime, 250)],
                              faulty)
    IN IF stepped.thrown \/ stepped.hung THEN stepped ELSE render(stepped.loop, faulty)

\* Mutant of clampedDelta: the raw frame time is taken as it is.
clampedDelta_Raw(rawDeltaTime, maxDeltaTime) == rawDeltaTime

\* this.deltaTime = Math.min(rawDeltaTime / 1000, this.config.maxDeltaTime)
clampedDelta(rawDeltaTime, maxDeltaTime) == Min(rawDeltaTime, maxDeltaTime)

\* loop(currentTime).  The callback of the kind faulty throws; hasMessage
\* tells whether the thrown value has properties (an Error, a string) or not
\* (null, undefined): the catch block reads error.message.  Gives the loop
\* and how the tick ended; a tick that has hung never returns.
loop(al, currentTime, faulty, hasMessage) ==
    IF ~al.isRunning THEN [loop |-> al, ended |-> "idle"]
    ELSE
      LET rawDeltaTime == currentTime - al.lastTime
          deltaTime == clampedDelta(rawDeltaTime, al.config.maxDeltaTime)
          timed == [al EXCEPT !.deltaTime = deltaTime,
                              !.lastTime = currentTime,
                              !.elapsedTime = @ + deltaTime]
          tracked == IF al.config.enablePerformanceTracking
                     THEN trackPerformance(timed, rawDeltaTime) ELSE timed
      IN IF tracked.isPaused
         THEN [loop |-> requestAnimationFrame(tracked), ended |-> "paused"]
         ELSE
           LET updated == IF tracked.config.enableFixedTimeStep
                          THEN fixedTimeStepUpdate(tracked, faulty)
                          ELSE variableTimeStepUpdate(tracked, faulty)
           IN IF updated.hung THEN [loop |-> updated.loop, ended |-> "hung"]
              ELSE IF ~updated.thrown
              THEN [loop |-> scheduleNextFrame(updated.loop), ended |-> "tick"]
              ELSE IF hasMessage
              THEN [loop |-> scheduleNextFrame([updated.loop EXCEPT !.hasError = TRUE]),
                    ended |-> "caught"]
              ELSE [loop |-> updated.loop, ended |-> "thrown"]

\* start()
start(al, now) ==
    IF al.isRunning THEN al
    ELSE requestAnimationFrame([al EXCEPT !.isRunning = TRUE, !.isPaused = FALSE,
                                          !.lastTime = now])

\* Mutant of stop: the loop stays paused.
stop_KeepsPaused(al) ==
    IF ~al.isRunning THEN al
    ELSE [al EXCEPT !.isRunning = FALSE, !.animationId = "null"]

\* stop()
stop(al) ==
    IF ~al.isRunning THEN al
    ELSE [al EXCEPT !.isRunning = FALSE, !.isPaused = FALSE, !.animationId = "null"]

\* pause()
pause(al) ==
    IF ~al.isRunning \/ al.isPaused THEN al
    ELSE [al EXCEPT !.isPaused = TRUE]

\* Mutant of resume: the reference of the frame times is left alone.
resume_KeepsLastTime(al, now) ==
    IF ~al.isRunning \/ ~al.isPaused THEN al
    ELSE [al EXCEPT !.isPaused = FALSE]

\* resume()
resume(al, now) ==
    IF ~al.isRunning \/ ~al.isPaused THEN al
    ELSE [al EXCEPT !.isPaused = FALSE, !.lastTime = now]

\* dispose()
loopDispose(al) ==
    [stop(al) EXCEPT !.callbacks = {}, !.frameTimeHistory = <<>>]

\* The event a call has emitted: none when the call changed nothing.
emitted(al, event) == IF al = AnimLoop THEN "none" ELSE event

\* ------------------------------------------------- the animation loop at work
\* The callers supply the configuration: a variable-step loop, one with the
\* adaptive frame rate and its performance tracking, and a fixed-step loop.
LoopConfigs ==
    { [targetFPS |-> 60, enableAdaptiveFrameRate |-> adaptive,
       enablePerformanceTracking |-> adaptive, maxDeltaTime |-> 100,
       enableFixedTimeStep |-> fixed, fixedTimeStep |-> 16] :
      adaptive \in BOOLEAN, fixed \in BOOLEAN } \
    { c \in [targetFPS : {60}, enableAdaptiveFrameRate : BOOLEAN,
             enablePerformanceTracking : BOOLEAN, maxDeltaTime : {100},
             enableFixedTimeStep : BOOLEAN, fixedTimeStep : {16}] :
      c.enableAdaptiveFrameRate /\ c.enableFixedTimeStep }

\* The frame times of the host: a normal frame and a stall of five seconds.
FrameTimes == {10, 5000}

\* The requests and timers the host holds.
Pending == pendingFrames + pendingTimers + (IF animationId = "pending" THEN 1 ELSE 0)

\* A loop after construction, with one of the configurations and one
\* callback of every kind registered.
LoopInitOf(configs) ==
    /\ NoPool /\ NoLODManager /\ NoCamera
    /\ isRunning = FALSE /\ isPaused = FALSE /\ animationId = "null"
    /\ lastTime = 0 /\ elapsedTime = 0 /\ tickDelta = 0 /\ accumulator = 0
    /\ frameTimeHistory = <<>>
    /\ loopConfig \in configs
    /\ callbacks = {HookKinds[i] : i \in DOMAIN HookKinds}
    /\ pendingFrames = 0 /\ pendingTimers = 0 /\ clock = 0
    /\ hasError = FALSE /\ hookLog = <<>>
    /\ loopLast = [call |-> "none", outcome |-> "none", at |-> 0]

LoopFrame == UNCHANGED <<poolVars, particleVars, lodVars, cameraVars>>

\* The last tick of the loop has returned.  A tick that never returns keeps
\* the one thread of the program: no call and no callback runs after it.
Returned == loopLast.outcome # "hung"

Start ==
    /\ Returned
    /\ Pending < MaxPending
    /\ LET al == start(AnimLoop, clock) IN
         /\ InstallLoop(al)
         /\ loopLast' = [call |-> "start", outcome |-> emitted(al, "animation:start"),
                         at |-> 0]
    /\ UNCHANGED clock
    /\ LoopFrame

Stop ==
    /\ Returned
    /\ LET al == stop(AnimLoop) IN
         /\ InstallLoop(al)
         /\ loopLast' = [call |-> "stop", outcome |-> emitted(al, "animation:stop"),
                         at |-> 0]
    /\ UNCHANGED clock
    /\ LoopFrame

Pause ==
    /\ Returned
    /\ LET al == pause(AnimLoop) IN
         /\ InstallLoop(al)
         /\ loopLast' = [call |-> "pause", outcome |-> emitted(al, "animation:pause"),
                         at |-> 0]
    /\ UNCHANGED clock
    /\ LoopFrame

\* resume() at the time of the clock; loopLast keeps the time of the call.
Resume ==
    /\ Returned
    /\ LET al == resume(AnimLoop, clock) IN
         /\ InstallLoop(al)
         /\ loopLast' = [call |-> "resume", outcome |-> emitted(al, "animation:resume"),
                         at |-> clock]
    /\ UNCHANGED clock
    /\ LoopFrame

LoopDispose ==
    /\ Returned
    /\ LET al == loopDispose(AnimLoop) IN
         /\ InstallLoop(al)
         /\ loopLast' = [call |-> "dispose", outcome |-> emitted(stop(AnimLoop), "animation:stop"),
                         at |-> 0]
    /\ UNCHANGED clock
    /\ LoopFrame

\* The host runs a frame request, the one animationId names or another one,
\* with the time of the clock; a callback of the tick may throw.  The tick
\* that follows a resume() keeps the time of that call in loopLast.
FrameCallbackOf(faults) ==
    /\ Returned
    /\ \E named \in BOOLEAN, fault \in faults :
         /\ IF named THEN animationId = "pending" ELSE pendingFrames > 0
         /\ LET fired == IF named THEN [AnimLoop EXCEPT !.animationId = "stale"]
                         ELSE [AnimLoop EXCEPT !.pendingFrames = @ - 1]
                ticked == loop(fired, clock, fault.hook, fault.hasMessage)
            IN /\ InstallLoop(ticked.loop)
               /\ loopLast' = [call |-> "loop", outcome |-> ticked.ended,
                               at |-> IF loopLast.call = "resume"
                                         /\ loopLast.outcome = "animation:resume"
                                      THEN loopLast.at ELSE 0]
    /\ UNCHANGED clock
    /\ LoopFrame

\* No callback throws, or the callback of one kind throws an Error, or it
\* throws a value without properties.
Faults ==
    {[hook |-> "none", hasMessage |-> TRUE]}
      \cup [hook : {"update", "render"}, hasMessage : BOOLEAN]

FrameCallback == FrameCallbackOf(Faults)

\* The host runs the timer of scheduleAdaptiveFrame.
TimerCallback ==
    /\ Returned
    /\ pendingTimers > 0
    /\ InstallLoop(requestAnimationFrame([AnimLoop EXCEPT !.pendingTimers = @ - 1]))
    /\ UNCHANGED <<clock, loopLast>>
    /\ LoopFrame

\* Time passes on the host: a few normal frames and at most one stall.
Advance ==
    /\ Returned
    /\ \E frameTime \in FrameTimes :
         /\ (clock + frameTime) % 5000 <= 10 * MaxShortFrames
         /\ clock + frameTime < 2 * 5000
         /\ clock' = clock + frameTime
    /\ UNCHANGED <<isRunning, isPaused, animationId, lastTime, elapsedTime, tickDelta,
                   accumulator, frameTimeHistory, loopConfig, callbacks, pendingFrames,
                   pendingTimers, hasError, hookLog, loopLast>>
    /\ LoopFrame

\* The loops that request every frame themselves.
LoopInit == LoopInitOf({c \in LoopConfigs : ~c.enableAdaptiveFrameRate})

LoopNext ==
    \/ Start
    \/ Stop
    \/ Pause
    \/ Resume
    \/ LoopDispose
    \/ FrameCallback
    \/ Advance

LoopSpec == LoopInit /\ [][LoopNext]_vars

\* ---------------------------------------------------- the scheduling of ticks
\* The loops with the adaptive frame rate; no callback throws.
SchedulingInit == LoopInitOf({c \in LoopConfigs : c.enableAdaptiveFrameRate})

SchedulingNext ==
    \/ Start
    \/ Stop
    \/ Pause
    \/ Resume
    \/ LoopDispose
    \/ FrameCallbackOf({[hook |-> "none", hasMessage |-> TRUE]})
    \/ TimerCallback
    \/ Advance

SchedulingSpec == SchedulingInit /\ [][SchedulingNext]_vars

\* ------------------------------------------------------ the hooks of a tick
\* add...Callback(callback) and the unsubscribe function it returns, for the
\* one callback of each kind.
addCallback(al, kind) == [al EXCEPT !.callbacks = @ \cup {kind}]

removeCallback(al, kind) == [al EXCEPT !.callbacks = @ \ {kind}]

\* A variable-step loop; callbacks come and go between the ticks.
HookInit ==
    LoopInitOf({c \in LoopConfigs : ~c.enableAdaptiveFrameRate /\ ~c.enableFixedTimeStep})

AddCallback ==
    /\ Returned
    /\ \E kind \in {HookKinds[i] : i \in DOMAIN HookKinds} :
         /\ kind \notin callbacks
         /\ InstallLoop(addCallback(AnimLoop, kind))
    /\ UNCHANGED <<clock, loopLast>>
    /\ LoopFrame

RemoveCallback ==
    /\ Returned
    /\ \E kind \in callbacks : InstallLoop(removeCallback(AnimLoop, kind))
    /\ UNCHANGED <<clock, loopLast>>
    /\ LoopFrame

HookNext ==
    \/ Start
    \/ Stop
    \/ Pause
    \/ Resume
    \/ AddCallback
    \/ RemoveCallback
    \/ FrameCallback
    \/ Advance

HookSpec == HookInit /\ [][HookNext]_vars

\* ------------------------------------------------------------ the fixed step
\* setFixedTimeStep(enabled, timeStep?)
setFixedTimeStep(al, fixed, hasTimeStep, timeStep) ==
    IF hasTimeStep
    THEN [al EXCEPT !.config.enableFixedTimeStep = fixed,
                    !.config.fixedTimeStep = timeStep]
    ELSE [al EXCEPT !.config.enableFixedTimeStep = fixed]

\* Fixed-step loops with steps below and above the largest delta and above
\* the cap of the accumulator.
FixedConfigs ==
    [targetFPS : {60}, enableAdaptiveFrameRate : {FALSE},
     enablePerformanceTracking : {FALSE}, maxDeltaTime : {100, 1000},
     enableFixedTimeStep : {TRUE}, fixedTimeStep : {16, 100, 300}]

FixedStepInit == LoopInitOf(FixedConfigs)

\* The steps setFixedTimeStep is called with.
StepArgs == {-16, 0, 16}

SetFixedTimeStep ==
    /\ Returned
    /\ \E fixed \in BOOLEAN, hasTimeStep \in BOOLEAN, timeStep \in StepArgs :
         InstallLoop(setFixedTimeStep(AnimLoop, fixed, hasTimeStep, timeStep))
    /\ UNCHANGED <<clock, loopLast>>
    /\ LoopFrame

FixedStepNext ==
    \/ Start
    \/ Stop
    \/ SetFixedTimeStep
    \/ FrameCallback
    \/ Advance

FixedStepSpec == FixedStepInit /\ [][FixedStepNext]_vars

\* ================================================================== Camera
\* Distances are in units, angles in thousandths of a radian
\* (pi is 3142, pi * 0.35 is 1099, pi / 2.5 is 1256), the field of view in
\* degrees, factors in tenths.  The target position, which no clamp applies
\* to, and the transition timer are not part of the model.

MIN_CAMERA_DISTANCE == 30
MAX_CAMERA_DISTANCE == 300

\* The number NaN: no number of the model has this value.
NaN == -999999

\* Math.min and Math.max give NaN when an argument is NaN.
mathMin(a, b) == IF a = NaN \/ b = NaN THEN NaN ELSE Min(a, b)

mathMax(a, b) == IF a = NaN \/ b = NaN THEN NaN ELSE Max(a, b)

\* a + b and a * factor of numbers that may be NaN.
plus(a, b) == IF a = NaN \/ b = NaN THEN NaN ELSE a + b

times(a, tenths) == IF a = NaN \/ tenths = NaN THEN NaN ELSE (a * tenths) \div 10

\* The fields of one Camera.
Cam ==
    [state |-> cameraState, targetState |-> targetState, config |-> cameraConfig,
     isTransitioning |-> isTransitioning]

InstallCamera(c) ==
    /\ cameraState' = c.state
    /\ targetState' = c.targetState
    /\ cameraConfig' = c.config
    /\ isTransitioning' = c.isTransitioning

\* setDistance(distance, smooth = true)
setDistance(c, distance, smooth) ==
    LET clampedDistance == mathMax(MIN_CAMERA_DISTANCE, mathMin(MAX_CAMERA_DISTANCE, distance))
    IN IF smooth THEN [c EXCEPT !.targetState.distance = clampedDistance]
       ELSE [c EXCEPT !.state.distance = clampedDistance,
                      !.targetState.distance = clampedDistance]

\* setAngle(angle, smooth = true)
setAngle(c, angle, smooth) ==
    IF smooth THEN [c EXCEPT !.targetState.angle = angle]
    ELSE [c EXCEPT !.state.angle = angle, !.targetState.angle = angle]

\* setElevation(elevation, smooth = true): the range is 0.1 to Math.PI / 2.5.
setElevation(c, elevation, smooth) ==
    LET clampedElevation == mathMax(100, mathMin(1256, elevation))
    IN IF smooth THEN [c EXCEPT !.targetState.elevation = clampedElevation]
       ELSE [c EXCEPT !.state.elevation = clampedElevation,
                      !.targetState.elevation = clampedElevation]

\* setFOV(fov, smooth = true)
setFOV(c, fov, smooth) ==
    LET clampedFOV == mathMax(10, mathMin(120, fov))
    IN IF smooth THEN [c EXCEPT !.targetState.fov = clampedFOV]
       ELSE [c EXCEPT !.state.fov = clampedFOV, !.targetState.fov = clampedFOV]

\* orbit(deltaAngle, deltaElevation)
orbit(c, deltaAngle, deltaElevation) ==
    LET turned == setAngle(c, plus(c.targetState.angle, deltaAngle), TRUE)
    IN setElevation(turned, plus(turned.targetState.elevation, deltaElevation), TRUE)

\* zoom(factor)
zoom(c, factor) == setDistance(c, times(c.targetState.distance, factor), TRUE)

\* zoomIn(amount = 0.9)
zoomIn(c, amount) == zoom(c, amount)

\* zoomOut(amount = 1.1)
zoomOut(c, amount) == zoom(c, amount)

\* startTransition(duration)
startTransition(c) == [c EXCEPT !.isTransitioning = TRUE]

\* focusOn(position, distance?, transition = true)
focusOn(c, hasDistance, distance, transition) ==
    LET started == IF transition THEN startTransition(c) ELSE c
    IN IF hasDistance THEN setDistance(started, distance, transition) ELSE started

\* getViewModePresets(mode)
getViewModePresets(mode) ==
    CASE mode = "city" -> [distance |-> 140, angle |-> 0, elevation |-> 1099, fov |-> 45]
      [] mode = "network" -> [distance |-> 80, angle |-> 0, elevation |-> 1256, fov |-> 50]
      [] mode = "transition" -> [distance |-> 110, angle |-> 0, elevation |-> 1162, fov |-> 47]
      [] OTHER -> [distance |-> 140, angle |-> 0, elevation |-> 1099, fov |-> 45]

\* setViewMode(mode, transition = true)
setViewMode(c, mode, transition) ==
    LET presets == getViewModePresets(mode)
        started == IF transition THEN startTransition(c) ELSE c
    IN setFOV(setElevation(setAngle(setDistance(started, presets.distance, transition),
                                    presets.angle, transition),
                           presets.elevation, transition),
              presets.fov, transition)

\* reset(transition = true)
reset(c, transition) ==
    LET started == IF transition THEN startTransition(c) ELSE c
    IN setFOV(setElevation(setAngle(setDistance(started, c.config.initialDistance, transition),
                                    0, transition),
                           1099, transition),
              c.config.fov, transition)

\* update(deltaTime), lines 97-100: the difference of the angles after the
\* wrapping, each of the two tests applied once.
wrappedAngleDiff(c) ==
    LET angleDiff == c.targetState.angle - c.state.angle
        lowered == IF angleDiff > 3142 THEN angleDiff - 3142 * 2 ELSE angleDiff
    IN IF lowered < -3142 THEN lowered + 3142 * 2 ELSE lowered

\* target - current of numbers that may be NaN.
minus(a, b) == IF a = NaN \/ b = NaN THEN NaN ELSE a - b

\* current += diff * smoothing when Math.abs(diff) > epsilon; a comparison
\* with NaN is false.
toward(current, diff, epsilon, smoothing) ==
    IF diff = NaN THEN current
    ELSE IF abs(diff) > epsilon THEN current + (diff * smoothing) \div 10
    ELSE current

\* update(deltaTime): elapsed tells whether the duration of the transition
\* has passed (updateTransition, lines 142-152).  The epsilons are 0.01 units,
\* 0.001 radians and 0.1 degrees.
cameraUpdate(c, elapsed) ==
    LET smoothing == c.config.smoothing
        angleDiff == IF c.targetState.angle = NaN \/ c.state.angle = NaN THEN NaN
                     ELSE wrappedAngleDiff(c)
    IN [c EXCEPT
          !.isTransitioning = IF @ /\ elapsed THEN FALSE ELSE @,
          !.state.distance = toward(@, minus(c.targetState.distance, @), 0, smoothing),
          !.state.angle = toward(@, angleDiff, 1, smoothing),
          !.state.elevation = toward(@, minus(c.targetState.elevation, @), 1, smoothing),
          !.state.fov = toward(@, minus(c.targetState.fov, @), 0, smoothing)]

\* ------------------------------------------------------- the camera at work
\* The arguments of the calls: inside, below and above the ranges, and NaN.
DistanceArgs == {NaN, 10, 500}

ElevationArgs == {NaN, 0, 2000}

FOVArgs == {NaN, 5, 150}

FactorArgs == {NaN, -10, 20}

\* The constructor takes the distance and the field of view of the
\* configuration as they are.
CameraConfigs ==
    {[initialDistance |-> 140, fov |-> 45, smoothing |-> 1],
     [initialDistance |-> 500, fov |-> 150, smoothing |-> 1]}

CameraInitOf(configs) ==
    /\ NoPool /\ NoLODManager /\ NoAnimationLoop
    /\ cameraConfig \in configs
    /\ cameraState = [distance |-> cameraConfig.initialDistance, angle |-> 0,
                      elevation |-> 1099, fov |-> cameraConfig.fov]
    /\ targetState = cameraState
    /\ isTransitioning = FALSE

CameraInit == CameraInitOf(CameraConfigs)

CameraFrame == UNCHANGED <<poolVars, particleVars, lodVars, loopVars>>

SetDistance ==
    /\ \E distance \in DistanceArgs, smooth \in BOOLEAN :
         InstallCamera(setDistance(Cam, distance, smooth))
    /\ CameraFrame

SetElevation ==
    /\ \E elevation \in ElevationArgs :
         InstallCamera(setElevation(Cam, elevation, TRUE))
    /\ CameraFrame

SetFOV ==
    /\ \E fov \in FOVArgs :
         InstallCamera(setFOV(Cam, fov, TRUE))
    /\ CameraFrame

\* orbit by half a turn, as long as the target angle stays within the bound.
Orbit ==
    /\ \E deltaAngle \in {3142}, deltaElevation \in {NaN, -2000, 2000} :
         /\ targetState.angle + deltaAngle <= 3142 * MaxHalfTurns
         /\ InstallCamera(orbit(Cam, deltaAngle, deltaElevation))
    /\ CameraFrame

\* A factor is applied when the product is a distance of the model.
Exact(factor) ==
    IF factor = NaN \/ targetState.distance = NaN THEN TRUE
    ELSE (targetState.distance * factor) % 10 = 0

Zoom ==
    /\ \E factor \in FactorArgs :
         /\ Exact(factor)
         /\ InstallCamera(zoom(Cam, factor))
    /\ CameraFrame

ZoomIn ==
    /\ Exact(9)
    /\ InstallCamera(zoomIn(Cam, 9))
    /\ CameraFrame

ZoomOut ==
    /\ Exact(11)
    /\ InstallCamera(zoomOut(Cam, 11))
    /\ CameraFrame

FocusOnDistance ==
    /\ \E distance \in DistanceArgs, transition \in BOOLEAN :
         InstallCamera(focusOn(Cam, TRUE, distance, transition))
    /\ CameraFrame

FocusOnPosition ==
    /\ \E transition \in BOOLEAN : InstallCamera(focusOn(Cam, FALSE, 0, transition))
    /\ CameraFrame

SetViewMode ==
    /\ \E mode \in ViewModes, transition \in BOOLEAN :
         InstallCamera(setViewMode(Cam, mode, transition))
    /\ CameraFrame

Reset ==
    /\ \E transition \in BOOLEAN : InstallCamera(reset(Cam, transition))
    /\ CameraFrame

CameraNext ==
    \/ SetDistance
    \/ SetElevation
    \/ SetFOV
    \/ Orbit
    \/ Zoom
    \/ ZoomIn
    \/ ZoomOut
    \/ FocusOnDistance
    \/ FocusOnPosition
    \/ SetViewMode
    \/ Reset

CameraSpec == CameraInit /\ [][CameraNext]_vars

\* ------------------------------------------------------------- the smoothing
\* The smoothing factor, in tenths: the camera covers half of the difference
\* in an update, or all of it.
SmoothingConfigs ==
    [initialDistance : {140}, fov : {45}, smoothing : {5, 10}]

\* The angles asked of setAngle: none, one and two full turns.
AngleArgs == {0, 6284, 12568}

SetAngle ==
    /\ \E angle \in AngleArgs, smooth \in BOOLEAN :
         InstallCamera(setAngle(Cam, angle, smooth))
    /\ CameraFrame

\* The products of update() are numbers of the model.
ExactUpdate ==
    \A diff \in {minus(targetState.distance, cameraState.distance),
                  wrappedAngleDiff(Cam),
                  minus(targetState.elevation, cameraState.elevation),
                  minus(targetState.fov, cameraState.fov)} :
       diff = NaN \/ (diff * cameraConfig.smoothing) % 10 = 0

CameraUpdate ==
    /\ ExactUpdate
    /\ \E elapsed \in BOOLEAN : InstallCamera(cameraUpdate(Cam, elapsed))
    /\ CameraFrame

SmoothingNext ==
    \/ SetAngle
    \/ Orbit
    \/ Reset
    \/ CameraUpdate

SmoothingSpec == CameraInitOf(SmoothingConfigs) /\ [][SmoothingNext]_vars

\* ================================================================== claims

\* C1 (pool conservation): after any sequence of acquire and release calls,
\* available.length + active.size equals the number of objects constructed
\* (stats.created) minus the number disposed (stats.disposed); the two
\* counters count the objects createFn returned and disposeFn received.
C1_PoolConservation ==
    /\ Len(available) + Len(active) = stats.created - stats.disposed
    /\ stats.created = Cardinality(constructed)
    /\ stats.disposed = Cardinality(disposedObjs)

\* A pool that has grown on demand, reused, and disposed an object, with
\* objects on both sides.
C1_Witness ==
    /\ stats.created > config.initialSize
    /\ stats.reused > 0
    /\ stats.disposed > 0
    /\ Len(available) > 0
    /\ Len(active) > 0

\* C2 (exactly one owner): every object constructed and not disposed is in
\* exactly one of the available list and the active set, never in both and
\* never in neither, and the available list holds no object twice.
C2_ExactlyOneOwner ==
    /\ IsInjective(available)
    /\ IsInjective(active)
    /\ SeqToSet(available) \cap SeqToSet(active) = {}
    /\ SeqToSet(available) \cup SeqToSet(active) = constructed \ disposedObjs

\* Objects on both sides, and one disposed, after an object was given back.
C2_Witness ==
    /\ Len(available) > 0
    /\ Len(active) > 0
    /\ disposedObjs # {}
    /\ stats.reused > 0

\* C3 (pool exhaustion): a call of acquire() that finds no available object
\* and cannot grow (autoGrow is false, or the total is at maxSize) fails with
\* an error and leaves the available list, the active set and all counters as
\* they were.
C3_ExhaustionHasNoEffect ==
    [][(/\ AcquireCall
        /\ Len(available) = 0
        /\ (~config.autoGrow \/ Len(available) + Len(active) >= config.maxSize))
       => (/\ last' = "exhausted"
           /\ pc' = "idle"
           /\ UNCHANGED <<available, active, stats, constructed, disposedObjs>>)]_vars

\* acquire() has failed on a pool all of whose objects are active.
C3_Witness ==
    /\ last = "exhausted"
    /\ Len(available) = 0
    /\ Len(active) > 0

\* C4 (double release): release(obj) of an object that is not in the active
\* set changes nothing: not the active set, not the available list (obj is
\* not pushed a second time), not the counters.
C4_ReleaseOfInactiveIgnored ==
    [][\A obj \in constructed :
          (/\ obj \notin SeqToSet(active)
           /\ \E fault \in BOOLEAN, now \in ClockValues : ReleaseOf(obj, fault, now))
          => UNCHANGED <<available, active, stats, lastShrinkCheck, constructed,
                         disposedObjs>>]_vars

\* The second release of an object: it is ignored, the object is available.
C4_Witness ==
    /\ last = "ignored"
    /\ Len(available) > 0

\* C5 (acquire terminates): every activation of acquire() that ends in the
\* retry of line 116 has strictly reduced the pool's total count, the quantity
\* whose decrease bounds the recursion, so that the call ends by returning an
\* object or by pool exhaustion whatever the validator answers.
C5_AcquireTerminates ==
    [][pc' = "acquire"
       => Len(available') + Len(active') < Len(available) + Len(active)]_vars

\* C6 (reset fault): when resetFn throws during release(obj) of an active
\* object, the object is disposed, leaves the active set, does not enter the
\* available list, stats.disposed grows by one, and release() returns.
C6_ResetFaultDisposes ==
    [][\A obj \in SeqToSet(active) :
          (\E now \in ClockValues : ReleaseOf(obj, TRUE, now))
          => (/\ obj \in disposedObjs'
              /\ obj \notin SeqToSet(active')
              /\ obj \notin SeqToSet(available')
              /\ available' = available
              /\ active' = SetDelete(active, obj)
              /\ stats'.disposed = stats.disposed + 1
              /\ last' = "resetFault"
              /\ pc' = "idle")]_vars

\* A release has ended in a reset fault.
C6_Witness ==
    /\ last = "resetFault"
    /\ disposedObjs # {}

\* C7 (resize spares the active objects): resize(n) leaves the active set as
\* it was and disposes only objects of the available list; when fewer than
\* total - n objects are available it disposes all of them and stops.
C7_ResizeSparesActive ==
    [][\A n \in (0 - 1)..(config.maxSize + 1) :
          ResizeTo(n)
          => (/\ active' = active
              /\ (disposedObjs' \ disposedObjs) \subseteq SeqToSet(available)
              /\ (/\ n >= 0
                  /\ Len(available) + Len(active) - n >= Len(available))
                 => (/\ available' = <<>>
                     /\ SeqToSet(available) \subseteq disposedObjs'))]_vars

\* A resize has fallen short: it emptied the available list and active objects
\* remain beyond the requested size.
C7_Witness ==
    /\ last = "shortfall"
    /\ available = <<>>
    /\ Len(active) > 0
    /\ disposedObjs # {}

\* C8 (batchAcquire is all or nothing): when an acquisition of the batch
\* fails, the objects the batch had acquired are released before the error
\* propagates: the active set after the failed call is the one before it.
C8_BatchAcquireAllOrNothing ==
    [][(BatchAcquire /\ last' \in {"rollback", "throw"}) => active' = active]_vars

\* A batch has failed after it had acquired at least one object.
C8_Witness == last = "rollback"

\* C9 (automatic shrinking): a release whose shrink check disposes objects,
\* whatever the clock reads, never leaves the pool with fewer than initialSize
\* objects and never disposes an active object: the active set loses the
\* released object only, and what is disposed comes from the available list
\* (the released object, pushed onto it, included).
C9_ShrinkKeepsInitialSize ==
    [][last' = "shrunk" =>
          /\ Len(available') + Len(active') >= config.initialSize
          /\ Len(available') >= config.initialSize
          /\ \E obj \in SeqToSet(active) :
                /\ active' = SetDelete(active, obj)
                /\ (disposedObjs' \ disposedObjs) \subseteq
                       SeqToSet(available) \cup {obj}]_vars

\* The shrink check has disposed an object of a pool that keeps a positive
\* initialSize, while another object was active.
C9_Witness == last = "shrunk" /\ Len(active) > 0 /\ config.initialSize > 0

\* C10 (maxSize): after any sequence of acquire, release, batchAcquire,
\* batchRelease, warmUp and resize calls the pool holds at most maxSize
\* objects.
C10_TotalAtMostMaxSize == Len(available) + Len(active) <= config.maxSize

\* A full pool that has grown on demand and has refused to grow further.
C10_Witness ==
    /\ Len(available) + Len(active) = config.maxSize
    /\ stats.created > config.initialSize
    /\ config.autoGrow
    /\ last \in {"exhausted", "throw"}

\* C11 (end-to-end scenario, initialSize 5 and maxSize 10): the first ten
\* acquires succeed; the eleventh fails and constructs nothing; after three
\* releases the next two acquires succeed by reuse: nothing is constructed,
\* stats.created stays at 10, and the object returned is taken from the
\* available list, which holds released objects only.
C11_EndToEndScenario ==
    /\ [](acquiredSoFar = 10 /\ releasedSoFar = 0 => available = <<>>)
    /\ [](acquiredSoFar >= 10 =>
            /\ stats.created = 10
            /\ Len(available) = releasedSoFar - (acquiredSoFar - 10))
    /\ [][ScenarioAcquire =>
            IF acquiredSoFar < 10
            THEN last' = "ok" /\ Len(active') = Len(active) + 1
            ELSE IF releasedSoFar = 0
            THEN /\ last' = "exhausted"
                 /\ constructed' = constructed
                 /\ getTotalSize(Pool)' = getTotalSize(Pool)
                 /\ stats'.created = stats.created
            ELSE /\ last' = "ok"
                 /\ constructed' = constructed
                 /\ stats'.created = 10
                 /\ \E obj \in SeqToSet(available) :
                       active' = Append(active, obj)]_vars

\* The script has run to its end: twelve acquires have succeeded, one has
\* failed, three objects were released and one of them is still available.
C11_Witness ==
    /\ acquiredSoFar = 12
    /\ releasedSoFar = 3
    /\ Len(available) = 1
    /\ Len(active) = 9

\* C12 (clear, as claimed): from any reachable state, whatever resetFn and the
\* clock do, the pool q that clear() leaves and the calls it has made satisfy
\* the following: the active set and the available list are empty; every object that was active has been
\* reset (or disposed on a reset fault) before any pooled instance is disposed;
\* every object is disposed exactly once; a second clear() changes nothing.
C12_ClearResetsBeforeAnyDisposal ==
    pc = "idle" =>
       \A faults \in FaultSets(SeqToSet(active)), now \in NowValues :
          \A q \in {clear(Pool, faults, now)} : \A calls \in {q.calls} :
               /\ q.available = <<>> /\ q.active = <<>>
               /\ \A obj \in SeqToSet(active) :
                     \E j \in 1..Len(calls) : calls[j] = <<"reset", obj>>
               /\ \A i, j \in 1..Len(calls) :
                     (/\ calls[i][1] = "dispose"
                      /\ calls[i][2] \notin faults
                      /\ calls[j][1] = "reset") => j < i
               /\ IsInjective(calls)
               /\ \A i \in 1..Len(calls) :
                     calls[i][1] = "dispose" => calls[i][2] \notin disposedObjs
               /\ q.disposedObjs = constructed /\ q.constructed = constructed
               /\ \A now2 \in NowValues :
                     clear([q EXCEPT !.calls = <<>>], {}, now2) = [q EXCEPT !.calls = <<>>]

\* C12 (clear, amended): as above, but the resets of the active objects precede
\* the disposal of the instances left in the available list; while the active
\* objects are released, the only pooled instances disposed early are those
\* removed by the shrink check of a release, which needs autoShrink and a
\* clock reading at least shrinkCheckInterval past the last check.
C12_ClearResetsBeforeItsDisposals ==
    pc = "idle" =>
       \A faults \in FaultSets(SeqToSet(active)), now \in NowValues :
          \A q \in {clear(Pool, faults, now)} : \A calls \in {q.calls} :
               /\ q.available = <<>> /\ q.active = <<>>
               /\ \A obj \in SeqToSet(active) :
                     \E j \in 1..Len(calls) : calls[j] = <<"reset", obj>>
               /\ \A i, j \in 1..Len(calls) :
                     (/\ calls[i][1] = "dispose"
                      /\ calls[i][2] \notin faults
                      /\ calls[j][1] = "reset"
                      /\ i < j)
                     => /\ config.autoShrink
                        /\ now - lastShrinkCheck >= shrinkCheckInterval
                        /\ calls[i][2] \in SeqToSet(available) \cup SeqToSet(active)
                        /\ \E k \in 1..Len(calls) :
                              k < i /\ calls[k][1] = "reset" /\ calls[k][2] \notin faults
               /\ IsInjective(calls)
               /\ \A i \in 1..Len(calls) :
                     calls[i][1] = "dispose" => calls[i][2] \notin disposedObjs
               /\ q.disposedObjs = constructed /\ q.constructed = constructed
               /\ \A now2 \in NowValues :
                     clear([q EXCEPT !.calls = <<>>], {}, now2) = [q EXCEPT !.calls = <<>>]

\* clear() has released active objects and has emptied the pool.
C12_Witness ==
    /\ last \in {"cleared", "clearShrunk"}
    /\ available = <<>> /\ active = <<>>
    /\ disposedObjs = constructed
    /\ Cardinality(constructed) >= 2

\* C13 (pool exhaustion is recoverable): when the cap is not reached and the
\* pool can neither reuse nor construct an object, spawnParticle returns null,
\* raises no error and leaves the active particle set unchanged.
C13_ExhaustionReturnsNull ==
    [][\A travelTime \in TravelTimes :
          (/\ SpawnParticleOf(travelTime)
           /\ ~atCapacity(Manager)
           /\ Len(available) = 0
           /\ ~canGrow(Pool))
          => (spawned' = "null" /\ activeParticles' = activeParticles)]_vars

\* C14 (particle cap): with maxParticles = N and N particles active, the next
\* spawnParticle returns null, acquires nothing from the pool (no field of the
\* pool changes) and the active count remains N.
C14_CapEnforced ==
    [][\A travelTime \in TravelTimes :
          (/\ SpawnParticleOf(travelTime)
           /\ Len(activeParticles) = particleConfig.maxParticles)
          => (/\ spawned' = "null"
              /\ UNCHANGED <<available, active, stats, constructed, disposedObjs>>
              /\ activeParticles' = activeParticles
              /\ particleData' = particleData)]_vars

\* A spawn has been refused at the cap while the pool still had an object to
\* give.
C14_Witness ==
    /\ spawned = "null"
    /\ Len(activeParticles) = particleConfig.maxParticles
    /\ particleConfig.maxParticles > 0
    /\ Len(available) > 0

\* C15 (hard cap, as claimed): in every reachable state of the particle
\* manager the active particle count is at most the configured maximum.
C15_CountAtMostMax == Len(activeParticles) <= particleConfig.maxParticles

\* C15 (hard cap, amended): no call makes the active particle count grow
\* beyond the configured maximum: after every call the count is at most the
\* maximum or has not grown. (The count is above the maximum only after
\* setQuality has lowered the maximum below it.)
C15_CountNeverGrowsBeyondMax ==
    [][\/ Len(activeParticles') <= particleConfig'.maxParticles
       \/ /\ Len(activeParticles') <= Len(activeParticles)
          /\ Len(activeParticles) > particleConfig'.maxParticles]_vars

\* A spawn has filled the manager up to its cap.
C15_Witness ==
    /\ spawned = "particle"
    /\ Len(activeParticles) = particleConfig.maxParticles
    /\ Len(activeParticles) = 2

\* C17 (setQuality never kills live particles): setQuality(q) leaves the active
\* particle set and the remaining life of every active particle unchanged,
\* also when the new maximum is below the active count; of the manager's
\* state only maxParticles, spawnRate and quality change (to the preset of q),
\* and the pool is not touched.
C17_SetQualityKeepsParticles ==
    [][\A quality \in Qualities :
          SetQualityTo(quality)
          => (/\ activeParticles' = activeParticles
              /\ particleData' = particleData
              /\ spawnTimer' = spawnTimer
              /\ enabled' = enabled
              /\ UNCHANGED <<available, active, stats, constructed, disposedObjs>>
              /\ particleConfig' =
                    [particleConfig EXCEPT
                        !.quality = quality,
                        !.maxParticles = QualityPresets[quality].maxParticles,
                        !.spawnRate = QualityPresets[quality].spawnRate])]_vars

\* setQuality has set a maximum below the number of live particles.
C17_Witness ==
    /\ spawned = "none"
    /\ Len(activeParticles) > particleConfig.maxParticles
    /\ \A particle \in SeqToSet(activeParticles) : particleData[particle].life > 0

\* C16 (expiry, as claimed): the update(dt) call in which the life of a
\* particle becomes <= 0 removes it from the active set and releases it to the
\* pool, once; update releases no other particle (none that expired before);
\* and after every update() no active particle has life <= 0.
C16_ExpiredOnceInSameTick ==
    [][\A deltaTime \in DeltaTimes, now \in NowValues :
          UpdateOf(deltaTime, now) =>
             LET m == update(Manager, deltaTime, now)
                 expiring == IF enabled
                             THEN {particle \in SeqToSet(activeParticles) :
                                      particleData[particle].life - deltaTime <= 0}
                             ELSE {}
                 resets == SelectSeq(m.pool.calls, LAMBDA call : call[1] = "reset")
             IN  /\ SeqToSet(activeParticles') = SeqToSet(activeParticles) \ expiring
                 /\ SeqToSet(active') = SeqToSet(active) \ expiring
                 /\ expiring \subseteq SeqToSet(available') \cup disposedObjs'
                 /\ {call[2] : call \in SeqToSet(resets)} = expiring
                 /\ IsInjective(resets)
                 /\ \A particle \in SeqToSet(activeParticles') :
                       particleData'[particle].life > 0]_vars

\* C16 (expiry, amended): as above, but no active particle has life <= 0 after
\* every update() of an enabled manager; the update() of a disabled manager
\* changes nothing, so a particle spawned with life 0 stays active with it.
C16_ExpiredOnceWhileEnabled ==
    [][\A deltaTime \in DeltaTimes, now \in NowValues :
          UpdateOf(deltaTime, now) =>
             LET m == update(Manager, deltaTime, now)
                 expiring == IF enabled
                             THEN {particle \in SeqToSet(activeParticles) :
                                      particleData[particle].life - deltaTime <= 0}
                             ELSE {}
                 resets == SelectSeq(m.pool.calls, LAMBDA call : call[1] = "reset")
             IN  /\ SeqToSet(activeParticles') = SeqToSet(activeParticles) \ expiring
                 /\ SeqToSet(active') = SeqToSet(active) \ expiring
                 /\ expiring \subseteq SeqToSet(available') \cup disposedObjs'
                 /\ {call[2] : call \in SeqToSet(resets)} = expiring
                 /\ IsInjective(resets)
                 /\ enabled =>
                       \A particle \in SeqToSet(activeParticles') :
                          particleData'[particle].life > 0
                 /\ ~enabled => UNCHANGED <<activeParticles, particleData, spawnTimer>>]_vars

\* An update has expired a particle while another one stays alive.
C16_Witness ==
    /\ spawned = "expired"
    /\ enabled
    /\ Len(activeParticles) > 0
    /\ Len(available) > 0

\* C18 (rate-limited spawn): spawnDataFlow spawns a particle only when at least
\* 1 / spawnRate seconds, accumulated through update, have elapsed, and does
\* nothing at all otherwise; the interval runs from the last successful spawn:
\* a call that has spawned nothing does not restart it.
C18_IntervalFromLastSuccessfulSpawn ==
    [][\A travelTime \in TravelTimes :
          SpawnDataFlowOf(travelTime) =>
             /\ spawned' = "particle" => spawnTimer * particleConfig.spawnRate >= 10
             /\ spawnTimer * particleConfig.spawnRate < 10 =>
                   UNCHANGED <<poolVars, activeParticles, particleData, spawnTimer,
                               particleConfig, enabled>>
             /\ spawned' # "particle" => spawnTimer' = spawnTimer]_vars

\* C19 (tier a function of the distance): with frustum culling disabled,
\* after any update() that is not throttled, every tracked object's tier is
\* the one of its current distance under the thresholds (high if the distance
\* is at most T_high, medium if at most T_medium, low if at most T_low,
\* culled otherwise), whatever its previous distance or tier.
C19_TierOfCurrentDistance ==
    (lodLast \in {"updated", "updatedWithCamera"} /\ ~lodConfig.enableFrustumCulling)
        => \A id \in DOMAIN lodObjects :
              lodObjects[id].lastLODLevel =
                  newLODLevel(scene[id].distance, lodConfig.distances)

\* C19 as it holds: with frustum culling disabled, after any update() that is
\* not throttled, every tracked object's tier is the one of the distance at
\* which it was last evaluated, under the current thresholds, and that
\* distance is within 5 units of its current distance; for [50, 100, 200] a
\* distance of 30 gives high, 75 medium, 150 low and 250 culled.
C19_TierOfLastEvaluatedDistance ==
    /\ newLODLevel(30, <<50, 100, 200>>) = "high"
    /\ newLODLevel(75, <<50, 100, 200>>) = "medium"
    /\ newLODLevel(150, <<50, 100, 200>>) = "low"
    /\ newLODLevel(250, <<50, 100, 200>>) = "culled"
    /\ (lodLast \in {"updated", "updatedWithCamera"} /\ ~lodConfig.enableFrustumCulling)
          => \A id \in DOMAIN lodObjects :
                /\ lodObjects[id].lastLODLevel =
                       newLODLevel(lodObjects[id].lastDistance, lodConfig.distances)
                /\ abs(scene[id].distance - lodObjects[id].lastDistance) <= 5

\* An update without frustum culling has evaluated one object, which crossed
\* two thresholds, and has skipped another, which moved across the first
\* threshold within the hysteresis.
C19_Witness ==
    /\ lodLast = "updated"
    /\ ~lodConfig.enableFrustumCulling
    /\ \E id \in DOMAIN lodObjects :
          /\ lodObjects[id].lastDistance = 150
          /\ scene[id].distance = 150
          /\ lodObjects[id].lastLODLevel = "low"
    /\ \E id \in DOMAIN lodObjects :
          /\ lodObjects[id].lastDistance = 48
          /\ scene[id].distance = 52
          /\ lodObjects[id].lastLODLevel = "high"

\* C20 (frustum override): with frustum culling enabled and a camera
\* supplied, after any update() that is not throttled an object outside the
\* frustum of the camera has tier culled and is invisible, also when its
\* distance is within the high threshold and when only the orientation of the
\* camera changed since the previous update.
C20_OutsideFrustumIsCulled ==
    (lodLast = "updatedWithCamera" /\ lodConfig.enableFrustumCulling)
        => \A id \in DOMAIN lodObjects :
              ~scene[id].inFrustum
                  => /\ lodObjects[id].lastLODLevel = "culled"
                     /\ ~lodObjects[id].isVisible

\* C21 (tier and visibility agree): in every reachable state of the LOD
\* manager each tracked object's tier is one of high, medium, low, culled; a
\* culled object has isVisible = false and object.visible = false, and an
\* object of tier high, medium or low has isVisible = true.
C21_TierAndVisibilityAgree ==
    \A id \in DOMAIN lodObjects :
       LET o == lodObjects[id] IN
         /\ o.lastLODLevel \in {"high", "medium", "low", "culled"}
         /\ o.lastLODLevel = "culled" => (~o.isVisible /\ ~o.object.visible)
         /\ o.lastLODLevel \in {"high", "medium", "low"} => o.isVisible

\* An update has culled one object and shown another that was culled before.
C21_Witness ==
    /\ lodLast \in {"updated", "updatedWithCamera"}
    /\ \E id \in DOMAIN lodObjects : lodObjects[id].lastLODLevel = "culled"
    /\ \E id \in DOMAIN lodObjects :
          /\ lodObjects[id].lastLODLevel = "high"
          /\ id \in visibleObjects

\* C22 (the visible set is exact): after any sequence of addObject, update,
\* removeObject and dispose, the set behind getVisibleObjects() and
\* getVisibleCount() holds exactly the ids of the tracked objects whose
\* isVisible flag is true.
C22_VisibleSetExact ==
    visibleObjects = {id \in DOMAIN lodObjects : lodObjects[id].isVisible}

\* C23 (configuration changes force a re-evaluation): every change of the
\* thresholds or of the update frequency (setDistances, setUpdateFrequency, a
\* quality-profile change, a view-mode change) leaves every tracked object
\* with forceUpdate = true.
C23_ConfigChangeMarksAll ==
    [][(SetDistances \/ SetUpdateFrequency \/ AdjustQualitySettings
            \/ HandleViewModeChange)
          => \A id \in DOMAIN lodObjects' : lodObjects'[id].forceUpdate]_vars

\* C24: the pair (isRunning, isPaused) is Stopped (false, false), Running
\* (true, false) or Paused (true, true); start() acts only on a stopped loop,
\* stop() only on a running or paused one, pause() only on a running one and
\* resume() only on a paused one, each with its event, and every other call
\* changes nothing and emits no event.
C24_LoopStateMachine ==
    /\ [](isPaused => isRunning)
    /\ [][/\ Start => IF ~isRunning
                      THEN /\ isRunning' /\ ~isPaused'
                           /\ loopLast'.outcome = "animation:start"
                      ELSE AnimLoop' = AnimLoop /\ loopLast'.outcome = "none"
          /\ Stop => IF isRunning
                     THEN /\ ~isRunning' /\ ~isPaused'
                          /\ loopLast'.outcome = "animation:stop"
                     ELSE AnimLoop' = AnimLoop /\ loopLast'.outcome = "none"
          /\ Pause => IF isRunning /\ ~isPaused
                      THEN /\ isRunning' /\ isPaused'
                           /\ loopLast'.outcome = "animation:pause"
                      ELSE AnimLoop' = AnimLoop /\ loopLast'.outcome = "none"
          /\ Resume => IF isRunning /\ isPaused
                       THEN /\ isRunning' /\ ~isPaused'
                            /\ loopLast'.outcome = "animation:resume"
                       ELSE AnimLoop' = AnimLoop /\ loopLast'.outcome = "none"]_vars

\* pause() was called on a paused loop and changed nothing.
C24_Witness ==
    /\ isRunning /\ isPaused
    /\ loopLast = [call |-> "pause", outcome |-> "none", at |-> 0]

\* C25: in variable-step mode every pre-update and update hook of a tick gets
\* a deltaTime of at most maxDeltaTime, whatever the raw frame time (a stall
\* of 5 s with maxDeltaTime 0.1 s gives at most 0.1 s), and elapsedTime grows
\* by at most maxDeltaTime per tick.
C25_DeltaClamped ==
    /\ [](~loopConfig.enableFixedTimeStep =>
            \A i \in DOMAIN hookLog :
               hookLog[i].hook \in {"preUpdate", "update"} =>
                  hookLog[i].deltaTime <= loopConfig.maxDeltaTime)
    /\ [][~loopConfig.enableFixedTimeStep =>
            elapsedTime' <= elapsedTime + loopConfig.maxDeltaTime]_vars

\* A tick after a stall of five seconds has called the update hooks with
\* maxDeltaTime.
C25_Witness ==
    /\ ~loopConfig.enableFixedTimeStep
    /\ loopLast.call = "loop"
    /\ clock >= 5000 /\ lastTime = clock
    /\ \E i \in DOMAIN hookLog :
          /\ hookLog[i].hook = "update"
          /\ hookLog[i].deltaTime = loopConfig.maxDeltaTime

\* The tick that follows a resume(), with nothing but the passing of time in
\* between.
FirstTickAfterResume ==
    /\ loopLast.call = "resume" /\ loopLast.outcome = "animation:resume"
    /\ loopLast'.call = "loop"

\* C26 as stated: the first tick after resume() passes every hook a
\* deltaTime of at most the time that has passed since resume() was called.
C26_HookDeltaWithinTimeSinceResume ==
    [][FirstTickAfterResume =>
         \A i \in DOMAIN hookLog' :
            hookLog'[i].hook # "render" =>
               hookLog'[i].deltaTime <= clock - loopLast.at]_vars

\* C26, amended: the deltaTime the first tick after resume() measures is at
\* most the time that has passed since resume() was called; the tick passes
\* it to the post-render hooks and, in variable-step mode, to the pre-update
\* and update hooks; in fixed-step mode it feeds the accumulator and the
\* pre-update and update hooks get fixedTimeStep.
C26_MeasuredDeltaWithinTimeSinceResume ==
    [][FirstTickAfterResume =>
         /\ tickDelta' <= clock - loopLast.at
         /\ \A i \in DOMAIN hookLog' :
               hookLog'[i].hook # "render" =>
                  hookLog'[i].deltaTime =
                     IF loopConfig.enableFixedTimeStep
                        /\ hookLog'[i].hook \in {"preUpdate", "update"}
                     THEN loopConfig.fixedTimeStep
                     ELSE tickDelta']_vars

\* A loop was paused during a stall, resumed after it, and has ticked a frame
\* later.
C26_Witness ==
    /\ loopLast.call = "loop" /\ loopLast.outcome = "tick"
    /\ loopLast.at >= 5000
    /\ clock > loopLast.at
    /\ tickDelta = clock - loopLast.at
    /\ hookLog # <<>>

\* C27: between pause() and the matching resume() elapsedTime does not grow,
\* however many frames fire while the loop is paused.
C27_PausedTimeNotCounted ==
    [][isPaused /\ isPaused' => elapsedTime' = elapsedTime]_vars

\* C28: when a hook has thrown during a tick, the tick has caught the error
\* and recorded it in the shared error state, the loop is still running and
\* its next tick is scheduled.
C28_HookFaultContained ==
    loopLast.call = "loop" /\ loopLast.outcome \in {"caught", "thrown"} =>
       /\ hasError
       /\ isRunning
       /\ Pending > 0

\* C30: at most one invocation of the loop tick is pending, as a frame
\* request or as a timer of the adaptive delay, in every reachable state, and
\* none is pending after stop() or dispose().
C30_SingleInFlightTick ==
    /\ Pending <= 1
    /\ loopLast.call \in {"stop", "dispose"} => Pending = 0

\* The number lies in the range; NaN lies in no range.
InRange(a, low, high) == a # NaN /\ low <= a /\ a <= high

\* C29: after a call of a camera setter or of a method built on one, for any
\* argument, the target the call has set lies in its range: the distance in
\* [MIN_CAMERA_DISTANCE, MAX_CAMERA_DISTANCE] = [30, 300], the elevation in
\* [0.1, pi / 2.5], the field of view in [10, 120].
C29_TargetsClamped ==
    [][/\ (SetDistance \/ Zoom \/ ZoomIn \/ ZoomOut \/ FocusOnDistance
             \/ SetViewMode \/ Reset) =>
            InRange(targetState'.distance, 30, 300)
       /\ (SetElevation \/ Orbit \/ SetViewMode \/ Reset) =>
            InRange(targetState'.elevation, 100, 1256)
       /\ (SetFOV \/ SetViewMode \/ Reset) =>
            InRange(targetState'.fov, 10, 120)]_vars

\* The kinds of the hooks a tick has called, in the order of the calls.
kindsOf(log) == [i \in DOMAIN log |-> log[i].hook]

\* The kinds with a registered callback, in the order of a tick.
Registered == SelectSeq(HookKinds, LAMBDA kind : kind \in callbacks)

IsPrefix(a, b) == Len(a) <= Len(b) /\ SubSeq(b, 1, Len(a)) = a

\* C31 as stated: a tick of a running, unpaused variable-step loop calls the
\* pre-update hooks, then the update hooks, then the render hooks, then the
\* post-render hooks, every registered hook exactly once; a tick of a paused
\* or stopped loop calls no hook.
C31_EveryHookOnceInOrder ==
    [][FrameCallback =>
         IF isRunning /\ ~isPaused
         THEN kindsOf(hookLog') = Registered
         ELSE hookLog' = <<>>]_vars

\* C31, amended: the same for every tick in which no hook throws; when a
\* hook throws, the hooks before it have run once in that order, the
\* throwing hook is the last one called, and the rest do not run in that tick.
C31_HooksInOrderUntilThrow ==
    [][FrameCallback =>
         IF isRunning /\ ~isPaused
         THEN IF loopLast'.outcome = "tick"
              THEN kindsOf(hookLog') = Registered
              ELSE /\ hookLog' # <<>>
                   /\ IsPrefix(kindsOf(hookLog'), Registered)
         ELSE hookLog' = <<>>]_vars

\* A tick has called the hooks of all four kinds.
C31_Witness ==
    /\ loopLast.call = "loop" /\ loopLast.outcome = "tick"
    /\ kindsOf(hookLog) = HookKinds

\* The simulation steps a tick has run.
stepsOf(log) == Cardinality({i \in DOMAIN log : log[i].hook = "update"})

\* The calls of a fixed-step tick of n steps: the pre-update and the update
\* hooks with the fixed step n times, then the render hooks, once.
IsFixedStepTick(log, n, step) ==
    /\ Len(log) > 2 * n
    /\ \A i \in 1..(2 * n) :
          /\ log[i].hook = (IF i % 2 = 1 THEN "preUpdate" ELSE "update")
          /\ log[i].deltaTime = step
    /\ \A i \in DOMAIN log : log[i].hook = "render" <=> i = 2 * n + 1

\* What C32 says of the state after a fixed-step tick.
FixedStepTickDone ==
    /\ 0 <= accumulator' /\ accumulator' < loopConfig.fixedTimeStep
    /\ stepsOf(hookLog') <= 250 \div loopConfig.fixedTimeStep
    /\ IsFixedStepTick(hookLog', stepsOf(hookLog'), loopConfig.fixedTimeStep)

\* A tick of a running, unpaused fixed-step loop that returns.
FixedStepTick ==
    /\ FrameCallback
    /\ isRunning /\ ~isPaused /\ loopConfig.enableFixedTimeStep
    /\ loopLast'.outcome # "hung"

\* C32 as stated: after every fixed-step tick 0 <= accumulator <
\* fixedTimeStep, the tick ran at most floor(0.25 / fixedTimeStep) steps, each
\* passing fixedTimeStep to the pre-update and update hooks, and render ran
\* once after all steps.
C32_AfterEveryFixedStepTick ==
    [][FixedStepTick => FixedStepTickDone]_vars

\* C32, amended: the same after every fixed-step tick in which no hook
\* throws; when a hook throws, the accumulator keeps what was not drained,
\* between 0 and the cap of 0.25 s, and render does not run.
C32_AfterFixedStepTickWithoutThrow ==
    [][FixedStepTick =>
         IF loopLast'.outcome = "tick" THEN FixedStepTickDone
         ELSE /\ 0 <= accumulator' /\ accumulator' <= 250
              /\ \A i \in DOMAIN hookLog' :
                    hookLog'[i].hook = "render" => i = Len(hookLog')]_vars

\* A tick after a stall has met the cap of the accumulator: fifteen steps of
\* 16 ms and 10 ms left.
C32_Witness ==
    /\ loopConfig.enableFixedTimeStep /\ loopConfig.fixedTimeStep = 16
    /\ loopLast.call = "loop" /\ loopLast.outcome = "tick"
    /\ stepsOf(hookLog) = 15
    /\ accumulator = 10

\* C33: every fixed-step tick returns after a finite number of steps,
\* whatever fixedTimeStep the constructor or setFixedTimeStep was given.
C33_EveryTickReturns == loopLast.outcome # "hung"

\* C34: with the adaptive frame rate, the target a tick computes its delay
\* from is decided by the average of the retained samples: lowered below 80%
\* of the nominal target, raised above 110% of it, the nominal target
\* otherwise.
C34_TargetFromTrailingAverage ==
    (/\ loopConfig.enableAdaptiveFrameRate
     /\ loopLast.call = "loop" /\ loopLast.outcome = "tick") =>
       getAdaptiveFPS(AnimLoop) =
          adaptiveFPSFor(getAverageFPS(AnimLoop), loopConfig.targetFPS * 100)

\* C35 (claim as stated): in an update that evaluates the objects, the hook
\* setLOD of the component of a tracked object gets the distance and the
\* thresholds when the object was marked with forceUpdate and falls in a
\* visible tier, also when the tier is the one assigned before; and it gets
\* them whenever the tier changes.
HookCalled(id) ==
    lodObjects'[id].component.lod = <<scene[id].distance, lodConfig.distances>>

FallsInVisibleTier(id) ==
    /\ scene[id].inFrustum \/ lodLast' = "updated" \/ ~lodConfig.enableFrustumCulling
    /\ newLODLevel(scene[id].distance, lodConfig.distances) # "culled"

C35_ForcedUpdateReachesComponent ==
    [][LODUpdate /\ lodLast' # "none" =>
          \A id \in DOMAIN lodObjects :
             /\ lodObjects[id].component.hasSetLOD
             /\ FallsInVisibleTier(id)
             /\ \/ lodObjects[id].forceUpdate
                \/ lodObjects'[id].lastLODLevel # lodObjects[id].lastLODLevel
             => HookCalled(id)]_vars

\* C36 (claim as stated): after a view-mode change the active thresholds are
\* base thresholds multiplied by the factor of the mode, where base thresholds
\* are those of the constructor, of a quality profile or of setDistances; a
\* view-mode change never scales what an earlier view-mode change has scaled.
BaseThresholds ==
    {c.distances : c \in LODConfigs} \cup Thresholds
       \cup {LODProfiles[quality].distances : quality \in DOMAIN LODProfiles}

C36_ViewModeScalesBaseThresholds ==
    [][\A viewMode \in ViewModes :
          HandleViewModeChange /\ lodConfig' = handleViewModeChange(LOD, viewMode).config =>
             lodConfig'.distances \in
                {scaledBy(base, viewModeFactor(viewMode)) : base \in BaseThresholds}]_vars

\* C37 (claim as stated): gravity never drives the vertical velocity of an
\* active particle below the terminal velocity -10: a particle whose
\* velocity.y is >= -10 before update(deltaTime) has a velocity.y >= -10 after
\* it, for every deltaTime up to the maximum step of the loop.  The manager
\* is one configured with physics.
C37_TerminalVelocity ==
    [][Update /\ particleConfig.enablePhysics =>
          \A particle \in SeqToSet(activeParticles) \cap SeqToSet(activeParticles') :
             particleData[particle].velocityY >= TerminalVelocity =>
                particleData'[particle].velocityY >= TerminalVelocity]_vars

\* C38 (claim as stated): with the manager configured with enablePhysics =
\* false, update(deltaTime) leaves the velocity of every active particle
\* unchanged.
C38_NoGravityWithoutPhysics ==
    [][Update /\ ~particleConfig.enablePhysics =>
          \A particle \in SeqToSet(activeParticles) \cap SeqToSet(activeParticles') :
             particleData'[particle].velocityY = particleData[particle].velocityY]_vars

\* C39 (claim as stated): in every update() of the camera the angle
\* difference that is multiplied by the smoothing factor lies in (-pi, pi],
\* whatever the current angle and the target angle set through setAngle and
\* orbit.
C39_ShortestPathAngle ==
    [][CameraUpdate =>
          /\ wrappedAngleDiff(Cam) > -3142
          /\ wrappedAngleDiff(Cam) <= 3142]_vars

\* C40: after every call of spawnParticle, spawnBurst, spawnDataFlow, update,
\* setQuality and clearAllParticles the active set of the particle manager has
\* the members of the active set of its pool: no tracked particle sits in the
\* available list of the pool, and no object is active in the pool without
\* being tracked.
C40_ManagerAndPoolAgree ==
    /\ SeqToSet(activeParticles) = SeqToSet(active)
    /\ SeqToSet(activeParticles) \cap SeqToSet(available) = {}

\* An update has just retired a particle to the pool while another one is
\* still alive.
C40_Witness ==
    /\ spawned = "expired"
    /\ Len(activeParticles) >= 1
    /\ Len(available) >= 1

====
